---- MODULE Spec2Model ----
(***************************************************************************)
(* State-machine model of the self-healing control plane                   *)
(* (regression/04-self-healing-apis/api_performance_healing).              *)
(*                                                                         *)
(* The program runs on one asyncio event loop: a coroutine runs without    *)
(* interruption until it awaits something that really suspends             *)
(* (asyncio.sleep).  Every action below is one such uninterrupted segment. *)
(* Python dicts are functions whose DOMAIN is the set of present keys.     *)
(* Floats that the code only compares are kept as exact rationals          *)
(* <<numerator, denominator>>; times are whole seconds.                    *)
(***************************************************************************)
EXTENDS Integers, Sequences, FiniteSets, TLC

VARIABLES
    now,                   \* datetime.utcnow(), in seconds
    event,                 \* the call or loop iteration that ran last
    \* CircuitBreaker
    configs, states, error_counts, request_counts, last_state_change,
    monitors,              \* running _monitor_circuit tasks per endpoint
    \* AutoScaler, CacheManager, LoadBalancer
    last_scale_operations, cache_configs, algorithms,
    \* ActionOrchestrator
    active_actions,        \* keys of the dict of in-flight actions
    action_status, action_completed_at, action_error_message,
    calls,                 \* per caller: where its execute_action call stands
    results,               \* per caller: the ActionResult its last call returned
    ncalls,                \* per caller: execute_action calls made so far
    \* SelfHealingService
    active_operations,     \* endpoint -> start time of its healing operation
    hp_results,            \* per caller: how its last handle_prediction call ended
    hp_decided,            \* per caller: what the engine returned in that call
    shutdown_call,         \* where the shutdown call stands and how it ended
    \* AutoScaler called directly
    scale_calls,           \* per caller: where its scale call stands, what it asked for
    scale_plan,            \* an instance count, a scale factor, the counts scale asks for
    \* LoadBalancer health checks
    servers,               \* endpoint -> list of backend servers (id, health, weight)
    probe,                 \* the health check made last: server, result, health before
    \* DecisionEngine
    policies,              \* the engine's policies, as its constructor ordered them
    decision,              \* an evaluate call: prediction, metrics, what it returned
    issued,                \* the actions evaluate calls have returned, in order
    \* ActionTracker
    effectiveness,         \* (endpoint, action type) -> ActionEffectiveness
    recorded,              \* (endpoint, action type) -> what was passed in so far
    gate,                  \* the should_try_action call made since the last result
    type_order,            \* endpoint -> its action types, in order of first result
    recent_results,        \* endpoint -> the results kept for trend analysis
    best,                  \* the get_best_action_type call made since the last result
    \* CacheManager called directly
    cache_calls,           \* per caller: where its adjust call stands, what it did
    \* LoadBalancer called directly
    lb_calls,              \* per caller: where its adjust call stands, how it ended
    \* AutoScaler, one scale call followed step by step
    scale_run              \* where the call stands, what it asked for and observed

cbvars == <<configs, states, error_counts, request_counts, last_state_change,
            monitors>>
execvars == <<last_scale_operations, cache_configs, algorithms>>
actionvars == <<action_status, action_completed_at, action_error_message>>
orchvars == <<active_actions, actionvars, calls, results, ncalls>>
svcvars == <<active_operations, hp_results, hp_decided, shutdown_call>>
scalevars == <<scale_calls, scale_plan>>
lbvars == <<servers, probe>>
enginevars == <<policies, decision, issued>>
trackvars == <<effectiveness, recorded, gate, type_order, best, recent_results>>
directvars == <<cache_calls, lb_calls>>
stepvars == <<scale_run>>
unitvars == <<scalevars, lbvars, enginevars, trackvars, directvars, stepvars>>
vars == <<now, event, cbvars, execvars, orchvars, svcvars, unitvars>>

(***************************************************************************)
(* Bounds of the model                                                     *)
(***************************************************************************)
MaxRequests == 6        \* record_result calls counted per circuit state
MaxMonitors == 2        \* configure calls (monitor tasks) per endpoint
MaxTimeCB == 70         \* last clock value of the circuit-breaker runs
MaxCalls == 2           \* execute_action calls per caller
MaxTimeOrch == 300      \* last clock value of the orchestrator runs
MaxCurrent == 12        \* largest instance count the infrastructure reports
MaxServers == 3         \* backend servers of an endpoint
MaxPolicies == 3        \* policies handed to a decision engine
MaxHistory == 3         \* results recorded, of any kind
MaxTimeRun == 4         \* last clock reading at which a followed scale call begins
MaxWaits == 4           \* waits for healthy instances that succeed in a scale call
MaxIssued == 3          \* actions kept from successive evaluate calls
MaxTimeEngine == 3      \* last clock reading of the engine runs
MaxAttempts == 10       \* results recorded, of few kinds

Endpoints == {"e1", "e2"}
CircuitEndpoints == {"e1"}     \* the endpoint the circuit-breaker runs exercise

\* ---- dict helpers ------------------------------------------------------
EmptyDict == [k \in {} |-> 0]
DictSet(d, k, v) == [x \in (DOMAIN d) \cup {k} |-> IF x = k THEN v ELSE d[x]]
DictDel(d, k) == [x \in (DOMAIN d) \ {k} |-> d[x]]
DictGet(d, k, default) == IF k \in DOMAIN d THEN d[k] ELSE default

\* event: what ran last (op, endpoint), with what it was given (success,
\* latency_ms), the circuit state it found (before) and what it returned (allowed)
Event(op, e, success, latency_ms, before, allowed) ==
    [op |-> op, endpoint |-> e, success |-> success, latency_ms |-> latency_ms,
     before |-> before, allowed |-> allowed]
NoEvent == Event("none", "none", TRUE, 0, "none", TRUE)

(***************************************************************************)
(* actions/circuit_breaker.py                                              *)
(***************************************************************************)
CLOSED == "closed"
OPEN == "open"
HALF_OPEN == "half_open"
CircuitState == {CLOSED, OPEN, HALF_OPEN}

CircuitOf(e) == IF e \in DOMAIN states THEN states[e] ELSE "none"
CircuitEvent(op, e) == Event(op, e, TRUE, 0, CircuitOf(e), TRUE)

DefaultResetTimeoutSeconds == 60
HalfOpenProbes == 5

\* CircuitConfiguration(timeout_ms, error_threshold, reset_timeout_seconds = 60)
CircuitConfiguration(timeout_ms, error_threshold) ==
    [timeout_ms |-> timeout_ms, error_threshold |-> error_threshold,
     reset_timeout_seconds |-> DefaultResetTimeoutSeconds]

\* error_counts / max(1, request_counts) >= error_threshold, on exact rationals
Max(a, b) == IF a >= b THEN a ELSE b
Min(a, b) == IF a <= b THEN a ELSE b
RateAtLeast(errors, requests, threshold) ==
    errors * threshold[2] >= threshold[1] * requests

\* _reset_counters, and the three transition procedures: each sets the state,
\* stamps last_state_change and resets both counters (ec, rc: the counters on
\* entry, which record_result has already incremented).
\* faulty variant: only the error counter is reset
ResetErrorCountOnly(e, ec, rc) ==
    /\ error_counts' = DictSet(ec, e, 0)
    /\ request_counts' = rc

\* faulty variant: the counters of every endpoint are reset
ResetEveryCounter(e, ec, rc) ==
    /\ error_counts' = [x \in (DOMAIN ec) \cup {e} |-> 0]
    /\ request_counts' = [x \in (DOMAIN rc) \cup {e} |-> 0]

_reset_counters(e, ec, rc) ==
    /\ error_counts' = DictSet(ec, e, 0)
    /\ request_counts' = DictSet(rc, e, 0)

_open_circuit(e, ec, rc) ==
    /\ states' = DictSet(states, e, OPEN)
    /\ last_state_change' = DictSet(last_state_change, e, now)
    /\ _reset_counters(e, ec, rc)

_half_open_circuit(e, ec, rc) ==
    /\ states' = DictSet(states, e, HALF_OPEN)
    /\ last_state_change' = DictSet(last_state_change, e, now)
    /\ _reset_counters(e, ec, rc)

_close_circuit(e, ec, rc) ==
    /\ states' = DictSet(states, e, CLOSED)
    /\ last_state_change' = DictSet(last_state_change, e, now)
    /\ _reset_counters(e, ec, rc)

\* configure: replaces the configuration, initialises an endpoint seen for the
\* first time, and always spawns one more _monitor_circuit task.
\* faulty variant: configure re-initialises an endpoint that is already configured
ConfigureAlwaysInitialises(e, timeout_ms, error_threshold) ==
    /\ configs' = DictSet(configs, e, CircuitConfiguration(timeout_ms, error_threshold))
    /\ states' = DictSet(states, e, CLOSED)
    /\ error_counts' = DictSet(error_counts, e, 0)
    /\ request_counts' = DictSet(request_counts, e, 0)
    /\ last_state_change' = DictSet(last_state_change, e, now)
    /\ monitors' = [monitors EXCEPT ![e] = @ + 1]

\* faulty variant: configure zeroes the counters of an endpoint it has seen before
ConfigureResetsCounters(e, timeout_ms, error_threshold) ==
    /\ configs' = DictSet(configs, e, CircuitConfiguration(timeout_ms, error_threshold))
    /\ IF e \notin DOMAIN states
          THEN /\ states' = DictSet(states, e, CLOSED)
               /\ last_state_change' = DictSet(last_state_change, e, now)
          ELSE UNCHANGED <<states, last_state_change>>
    /\ error_counts' = DictSet(error_counts, e, 0)
    /\ request_counts' = DictSet(request_counts, e, 0)
    /\ monitors' = [monitors EXCEPT ![e] = @ + 1]

ConfigureEffect(e, timeout_ms, error_threshold) ==
    /\ configs' = DictSet(configs, e, CircuitConfiguration(timeout_ms, error_threshold))
    /\ IF e \notin DOMAIN states
          THEN /\ states' = DictSet(states, e, CLOSED)
               /\ error_counts' = DictSet(error_counts, e, 0)
               /\ request_counts' = DictSet(request_counts, e, 0)
               /\ last_state_change' = DictSet(last_state_change, e, now)
          ELSE UNCHANGED <<states, error_counts, request_counts, last_state_change>>
    /\ monitors' = [monitors EXCEPT ![e] = @ + 1]

TimeoutChoices == {5000}
ThresholdChoices == {<<1, 10>>, <<1, 2>>}
LatencyChoices == {100, 5001}

configure(e, timeout_ms, error_threshold) ==
    /\ monitors[e] < MaxMonitors
    /\ ConfigureEffect(e, timeout_ms, error_threshold)
    /\ event' = CircuitEvent("configure", e)
    /\ UNCHANGED now

\* should_allow_request
\* faulty variant: a half-open circuit admits one probe too many
AllowsSixthProbe(e) ==
    IF e \notin DOMAIN states THEN TRUE
    ELSE IF states[e] = CLOSED THEN TRUE
    ELSE IF states[e] = OPEN THEN FALSE
    ELSE request_counts[e] <= HalfOpenProbes

should_allow_request(e) ==
    IF e \notin DOMAIN states THEN TRUE
    ELSE IF states[e] = CLOSED THEN TRUE
    ELSE IF states[e] = OPEN THEN FALSE
    ELSE request_counts[e] < HalfOpenProbes

\* a caller asking should_allow_request: the state is left alone
should_allow_request_call(e) ==
    /\ event' = Event("should_allow_request", e, TRUE, 0, CircuitOf(e),
                      should_allow_request(e))
    /\ UNCHANGED <<now, cbvars>>

\* record_result
IsError(success, latency_ms, config) == ~success \/ latency_ms > config.timeout_ms

\* faulty variant: the error count, not the error rate, is compared with the threshold
OpensOnErrorCount(e, ec, rc) ==
    /\ states[e] = CLOSED
    /\ RateAtLeast(ec[e], 1, configs[e].error_threshold)

OpensOnResult(e, ec, rc) ==
    /\ states[e] = CLOSED
    /\ RateAtLeast(ec[e], Max(1, rc[e]), configs[e].error_threshold)

record_result(e, success, latency_ms) ==
    /\ e \in DOMAIN states
    /\ request_counts[e] < MaxRequests
    /\ LET rc == [request_counts EXCEPT ![e] = @ + 1]
           ec == IF IsError(success, latency_ms, configs[e])
                    THEN [error_counts EXCEPT ![e] = @ + 1]
                    ELSE error_counts
       IN  IF OpensOnResult(e, ec, rc)
              THEN _open_circuit(e, ec, rc)
              ELSE /\ error_counts' = ec
                   /\ request_counts' = rc
                   /\ UNCHANGED <<states, last_state_change>>
    /\ event' = Event("record_result", e, success, latency_ms, states[e], TRUE)
    /\ UNCHANGED <<now, configs, monitors>>

\* record_result for an endpoint that was never configured returns at once
record_result_unconfigured(e, success, latency_ms) ==
    /\ e \notin DOMAIN states
    /\ event' = Event("record_result", e, success, latency_ms, "none", TRUE)
    /\ UNCHANGED <<now, cbvars>>

\* one iteration of the while-loop of _monitor_circuit (the sleep of 5 s that
\* separates iterations does not touch the state: an iteration may run at any
\* instant a task exists for the endpoint)
\* faulty variant: the time in state is taken in minutes and compared with seconds
RecoveryDueInMinutes(e) ==
    (now - last_state_change[e]) * 60 >= configs[e].reset_timeout_seconds

RecoveryDue(e) ==
    now - last_state_change[e] >= configs[e].reset_timeout_seconds

ProbesDone(e) == request_counts[e] >= HalfOpenProbes

\* faulty variant: a probe error rate equal to the threshold closes the circuit
ProbeClosedAtThreshold(e) ==
    error_counts[e] * configs[e].error_threshold[2]
        <= configs[e].error_threshold[1] * request_counts[e]

ProbeClosed(e) ==
    ~RateAtLeast(error_counts[e], request_counts[e], configs[e].error_threshold)

_monitor_circuit(e) ==
    /\ monitors[e] > 0
    /\ e \in DOMAIN states
    /\ IF states[e] = OPEN /\ RecoveryDue(e)
          THEN _half_open_circuit(e, error_counts, request_counts)
       ELSE IF states[e] = HALF_OPEN /\ ProbesDone(e)
          THEN IF ProbeClosed(e)
                  THEN _close_circuit(e, error_counts, request_counts)
                  ELSE _open_circuit(e, error_counts, request_counts)
       ELSE UNCHANGED <<states, error_counts, request_counts, last_state_change>>
    /\ event' = CircuitEvent("monitor", e)
    /\ UNCHANGED <<now, configs, monitors>>

\* passage of time
TickStepsCB == {5, 55}
Tick(dt, limit) ==
    /\ now + dt <= limit
    /\ now' = now + dt
    /\ event' = Event("tick", "none", TRUE, 0, "none", TRUE)

TickCB ==
    /\ \E dt \in TickStepsCB : Tick(dt, MaxTimeCB)
    /\ UNCHANGED cbvars

InitCB ==
    /\ configs = EmptyDict
    /\ states = EmptyDict
    /\ error_counts = EmptyDict
    /\ request_counts = EmptyDict
    /\ last_state_change = EmptyDict
    /\ monitors = [e \in Endpoints |-> 0]

(***************************************************************************)
(* How a coroutine segment ends: it returns, raises, or suspends in a      *)
(* sleep (path: where it will pick up).  An error message is the tuple of  *)
(* the parts of the formatted string.                                      *)
(***************************************************************************)
Return == [kind |-> "return", error |-> <<>>, path |-> ""]
Raise(msg) == [kind |-> "raise", error |-> msg, path |-> ""]
Suspend(path) == [kind |-> "suspend", error |-> <<>>, path |-> path]

(***************************************************************************)
(* actions/scaling.py                                                      *)
(***************************************************************************)
min_instances == 2
max_instances == 10
cooldown_minutes == 5
SimulatedInstanceCount == 2         \* _get_instance_count
SimulatedHealthyCount == 2          \* _get_healthy_instance_count

\* Python's round() of the fraction num/den: to nearest, ties to even
PyRound(num, den) ==
    LET q == num \div den
        r == num % den
    IN  IF 2 * r < den THEN q
        ELSE IF 2 * r > den THEN q + 1
        ELSE IF q % 2 = 0 THEN q ELSE q + 1

\* faulty variant: the target is not clamped to [min_instances, max_instances]
TargetUnclamped(current, scale_factor) == PyRound(current * scale_factor, 10)

\* scale factors are kept in tenths: 15 is 1.5
TargetInstances(current, scale_factor) ==
    Max(min_instances, Min(max_instances, PyRound(current * scale_factor, 10)))

_can_scale(e) ==
    \/ e \notin DOMAIN last_scale_operations
    \/ now >= last_scale_operations[e] + cooldown_minutes * 60

\* _gradual_scale_up: the instance counts it asks for, in order
RECURSIVE GradualSteps(_, _, _)
GradualSteps(current_step, target, step_size) ==
    IF current_step < target
       THEN LET next_step == Min(target, current_step + step_size)
            IN  <<next_step>> \o GradualSteps(next_step, target, step_size)
       ELSE <<>>

\* faulty variant: a third of the difference, rounded up
StepSizeRoundedUp(current, target) == (target - current + 2) \div 3

\* step_size = max(1, (target - current) // 3)
StepSize(current, target) == Max(1, (target - current) \div 3)

\* the instance counts scale passes to _scale_to, in order, when every wait
\* for healthy instances succeeds
ScaleRequests(current, scale_factor) ==
    LET target == TargetInstances(current, scale_factor)
    IN  IF current = 0 \/ target = current THEN <<>>
        ELSE IF target > current * 2
            THEN GradualSteps(current, target, StepSize(current, target))
        ELSE <<target>>

\* the same when only the first waits_ok waits of the gradual path succeed:
\* the wait that times out ends the call
ScaleRequestsUntil(current, scale_factor, waits_ok) ==
    LET all == ScaleRequests(current, scale_factor)
    IN  IF TargetInstances(current, scale_factor) > current * 2
           THEN SubSeq(all, 1, Min(Len(all), waits_ok + 1))
           ELSE all

\* _wait_for_healthy_instances gives up after 30 polls that all see fewer
\* healthy instances than the step asked for
WaitTimesOut(target_count) == SimulatedHealthyCount < target_count

\* scale, up to its first sleep (in _scale_to)
\* faulty variant: a call in cooldown raises instead of returning
CooldownRaises(e, scale_factor) ==
    LET current == SimulatedInstanceCount
        target == TargetInstances(current, scale_factor)
    IN  IF ~_can_scale(e) THEN Raise(<<"Scaling for ", e, " in cooldown period">>)
        ELSE IF current = 0
            THEN Raise(<<"Could not determine instance count for ", e>>)
        ELSE IF target = current THEN Return
        ELSE IF target > current * 2 THEN Suspend("gradual")
        ELSE Suspend("direct")

scale_begin(e, scale_factor) ==
    LET current == SimulatedInstanceCount
        target == TargetInstances(current, scale_factor)
    IN  IF ~_can_scale(e) THEN Return
        ELSE IF current = 0
            THEN Raise(<<"Could not determine instance count for ", e>>)
        ELSE IF target = current THEN Return
        ELSE IF target > current * 2 THEN Suspend("gradual")
        ELSE Suspend("direct")

\* scale, from that sleep to its end: the timestamp is recorded on completion
scale_end(e, scale_factor, path) ==
    LET current == SimulatedInstanceCount
        target == TargetInstances(current, scale_factor)
        steps == GradualSteps(current, target, StepSize(current, target))
    IN  IF path = "gradual" /\ \E i \in 1..Len(steps) : WaitTimesOut(steps[i])
           THEN Raise(<<"Timeout waiting for ", e, " instances to be healthy">>)
           ELSE Return

scale_end_effect(e, out) ==
    last_scale_operations' =
        IF out.kind = "return" THEN DictSet(last_scale_operations, e, now)
        ELSE last_scale_operations

\* ---- scale called directly by concurrent callers -----------------------
ScaleToSeconds == 2                 \* _scale_to: asyncio.sleep(2)
max_attempts == 30                  \* _wait_for_healthy_instances
HealthPollSeconds == 10             \* _wait_for_healthy_instances: asyncio.sleep(10)

Scalers == {"s1", "s2"}
ScaleEndpoints == {"e1"}
ScaleFactorChoices == {10, 15, 30}
IdleScale ==
    [pc |-> "idle", endpoint |-> "none", scale_factor |-> 10, started |-> 0,
     requested |-> <<>>, outcome |-> "none"]

\* the call runs to its first sleep, which is inside the first _scale_to, or
\* to its end when it has nothing to do
scale_invoke(s, e, scale_factor) ==
    LET out == scale_begin(e, scale_factor)
        asked == ScaleRequests(SimulatedInstanceCount, scale_factor)
    IN  /\ scale_calls[s].pc = "idle"
        /\ scale_calls' = [scale_calls EXCEPT ![s] =
              [pc |-> IF out.kind = "suspend" THEN out.path ELSE "idle",
               endpoint |-> e, scale_factor |-> scale_factor, started |-> now,
               requested |-> IF out.kind = "suspend" THEN <<Head(asked)>> ELSE <<>>,
               outcome |-> out.kind]]
        /\ UNCHANGED <<now, event, last_scale_operations, scale_plan>>

\* the earliest the call can be running again: after the sleep of _scale_to,
\* and on the gradual path after the polls of the wait that fails
ScaleDue(call) ==
    now >= call.started + ScaleToSeconds
           + (IF call.pc = "gradual" THEN max_attempts * HealthPollSeconds ELSE 0)

\* the call runs from there to its end
scale_resume(s) ==
    LET call == scale_calls[s]
        out == scale_end(call.endpoint, call.scale_factor, call.pc)
    IN  /\ call.pc \in {"direct", "gradual"}
        /\ ScaleDue(call)
        /\ scale_end_effect(call.endpoint, out)
        /\ scale_calls' = [scale_calls EXCEPT ![s] =
                              [call EXCEPT !.pc = "idle", !.outcome = out.kind]]
        /\ UNCHANGED <<now, event, scale_plan>>

\* ---- one scale call followed from sleep to sleep ----------------------------
\* the call asks for counts (requested), sleeps in _scale_to, and on the gradual
\* path polls the healthy count (observed: the count seen last; attempt: polls
\* of the current wait that saw too few), sleeping between polls
InstanceCounts == {0, 1, 2, 3, 4, 6}          \* what _get_instance_count reports
RunFactorChoices == {10, 15, 30, 50}
NoRun ==
    [pc |-> "idle", endpoint |-> "none", current |-> 0, target |-> 0, path |-> "",
     requested |-> <<>>, attempt |-> 0, observed |-> -1, wake |-> 0,
     outcome |-> "none", error |-> <<>>]

\* what _get_healthy_instance_count can report while the call waits for step
HealthyCounts(step) == {SimulatedHealthyCount, step - 1, step}

TimeoutError(e) == <<"Timeout waiting for ", e, " instances to be healthy">>

\* faulty variant: a call that returns without scaling records the timestamp
StampsOnSkip(e, out) ==
    last_scale_operations' =
        IF out.kind = "return" THEN DictSet(last_scale_operations, e, now)
        ELSE last_scale_operations

\* scale ending before its first sleep (cooldown, no count, nothing to change)
\* has not reached the statement that records the timestamp
scale_skip_effect(e, out) == UNCHANGED last_scale_operations

\* scale up to its first sleep, for an instance count of current
scale_run_invoke(e, current, scale_factor) ==
    LET target == TargetInstances(current, scale_factor)
        out == IF ~_can_scale(e) THEN Return
               ELSE IF current = 0
                   THEN Raise(<<"Could not determine instance count for ", e>>)
               ELSE IF target = current THEN Return
               ELSE IF target > current * 2 THEN Suspend("gradual")
               ELSE Suspend("direct")
        first == IF out.path = "gradual"
                    THEN Min(target, current + StepSize(current, target))
                    ELSE target
    IN  /\ scale_run.pc = "idle"
        /\ now <= MaxTimeRun
        /\ scale_run' =
              [pc |-> IF out.kind = "suspend" THEN "scale_to" ELSE "idle",
               endpoint |-> e, current |-> current, target |-> target,
               path |-> out.path,
               requested |-> IF out.kind = "suspend" THEN <<first>> ELSE <<>>,
               attempt |-> 0, observed |-> -1, wake |-> now + ScaleToSeconds,
               outcome |-> IF out.kind = "suspend" THEN "none"
                           ELSE IF out.kind = "raise" THEN "raised" ELSE "returned",
               error |-> out.error]
        /\ scale_skip_effect(e, out)
        /\ event' = Event("scale", e, TRUE, 0, "none", TRUE)
        /\ UNCHANGED now

\* the end of scale: the timestamp is recorded and the call returns
RunCompletes(run, t) ==
    /\ scale_run' = [run EXCEPT !.pc = "idle", !.outcome = "returned"]
    /\ last_scale_operations' = DictSet(last_scale_operations, run.endpoint, t)

\* faulty variant: the next step is asked for whatever the poll saw
RequestsNextUnseen(run, t, healthy) ==
    LET step == run.requested[Len(run.requested)]
        seen == [run EXCEPT !.observed = healthy]
        next_step == Min(run.target, step + StepSize(run.current, run.target))
    IN  IF step < run.target
           THEN /\ scale_run' = [seen EXCEPT !.pc = "scale_to",
                                    !.requested = Append(@, next_step),
                                    !.attempt = 0,
                                    !.wake = t + ScaleToSeconds]
                /\ UNCHANGED last_scale_operations
           ELSE RunCompletes(seen, t)

\* one pass of the loop of _wait_for_healthy_instances at time t, seeing
\* healthy instances, and what follows it up to the next sleep
RunPolls(run, t, healthy) ==
    LET step == run.requested[Len(run.requested)]
        seen == [run EXCEPT !.observed = healthy]
        next_step == Min(run.target, step + StepSize(run.current, run.target))
    IN  IF healthy >= step
           THEN IF step < run.target
                   THEN /\ scale_run' = [seen EXCEPT !.pc = "scale_to",
                                            !.requested = Append(@, next_step),
                                            !.attempt = 0,
                                            !.wake = t + ScaleToSeconds]
                        /\ UNCHANGED last_scale_operations
                   ELSE RunCompletes(seen, t)
           ELSE /\ scale_run' = [seen EXCEPT !.pc = "wait", !.attempt = @ + 1,
                                    !.wake = t + HealthPollSeconds]
                /\ UNCHANGED last_scale_operations

\* the sleep of _scale_to is over
scale_run_scaled ==
    /\ scale_run.pc = "scale_to"
    /\ now' = scale_run.wake
    /\ IF scale_run.path = "direct" THEN RunCompletes(scale_run, scale_run.wake)
       ELSE \E healthy \in HealthyCounts(scale_run.requested[Len(scale_run.requested)]) :
               RunPolls(scale_run, scale_run.wake, healthy)
    /\ event' = Event("scale_to", scale_run.endpoint, TRUE, 0, "none", TRUE)

\* the sleep between two polls is over: another poll, or after max_attempts
\* polls the TimeoutError, which scale raises again
scale_run_poll ==
    /\ scale_run.pc = "wait"
    /\ now' = scale_run.wake
    /\ IF scale_run.attempt < max_attempts
          THEN \E healthy \in HealthyCounts(scale_run.requested[Len(scale_run.requested)]) :
                  RunPolls(scale_run, scale_run.wake, healthy)
          ELSE /\ scale_run' = [scale_run EXCEPT !.pc = "idle", !.outcome = "raised",
                                   !.error = TimeoutError(scale_run.endpoint)]
               /\ UNCHANGED last_scale_operations
    /\ event' = Event("poll", scale_run.endpoint, TRUE, 0, "none", TRUE)

\* the instants at which callers and wake-ups are observed
ScaleInstants == {0, 1, 2, 299, 300, 302, 303}

NoPlan ==
    [current |-> 0, scale_factor |-> 10, waits_ok |-> 0, requests |-> <<>>,
     done |-> FALSE]
PlanFactorChoices == {0, 5, 10, 15, 25, 30, 50, 100}

InitScale ==
    /\ scale_calls = [s \in Scalers |-> IdleScale]
    /\ scale_plan = NoPlan

(***************************************************************************)
(* actions/caching.py                                                      *)
(***************************************************************************)
adjustment_cooldown == 300

CacheConfig(ttl_seconds, capacity) ==
    [ttl_seconds |-> ttl_seconds, capacity |-> capacity, last_modified |-> now]

\* faulty variant: the cooldown still holds at exactly 300 seconds
CanAdjustOnlyAfter(config) == now - config.last_modified > adjustment_cooldown

_can_adjust(config) == now - config.last_modified >= adjustment_cooldown

InCacheCooldown(e) == e \in DOMAIN cache_configs /\ ~_can_adjust(cache_configs[e])

\* adjust, up to its first sleep (in _adjust_cache_implementation): in cooldown
\* it returns at once, otherwise the new configuration is stored first
cache_adjust_begin(e) == IF InCacheCooldown(e) THEN Return ELSE Suspend("apply")

\* faulty variant: the configuration is not stored before it is applied
StoresNothingBeforeApply(e, ttl_seconds, capacity) == UNCHANGED cache_configs

cache_adjust_begin_effect(e, ttl_seconds, capacity) ==
    cache_configs' =
        IF InCacheCooldown(e) THEN cache_configs
        ELSE DictSet(cache_configs, e, CacheConfig(ttl_seconds, capacity))

\* the rest of adjust: the configuration is applied and the hot keys warmed
cache_adjust_end(e) == Return

\* ---- the cache manager called directly by concurrent callers ---------------
CacheCallers == {"k1", "k2"}
CacheEndpoints == {"e1", "e2"}
CacheSettings == {[ttl_seconds |-> 60, capacity |-> 500],
                  [ttl_seconds |-> 300, capacity |-> 1000]}
ApplySeconds == 1

\* applied: _adjust_cache_implementation was entered; warmed: _warm_cache was
IdleCache ==
    [pc |-> "idle", endpoint |-> "none", ttl_seconds |-> 0, capacity |-> 0,
     started |-> 0, applied |-> FALSE, warmed |-> FALSE]

\* the call runs to the sleep of _adjust_cache_implementation, or to its end
\* when the endpoint is in cooldown
cache_adjust_invoke(k, e, ttl_seconds, capacity) ==
    LET out == cache_adjust_begin(e)
    IN  /\ cache_calls[k].pc = "idle"
        /\ cache_adjust_begin_effect(e, ttl_seconds, capacity)
        /\ cache_calls' = [cache_calls EXCEPT ![k] =
              [pc |-> IF out.kind = "suspend" THEN out.path ELSE "idle",
               endpoint |-> e, ttl_seconds |-> ttl_seconds, capacity |-> capacity,
               started |-> now, applied |-> out.kind = "suspend", warmed |-> FALSE]]
        /\ event' = Event("cache_adjust", e, TRUE, 0, "none", TRUE)
        /\ UNCHANGED now

\* the call wakes up, the backend call ends and _warm_cache runs; its batches
\* only sleep
cache_adjust_resume(k) ==
    LET call == cache_calls[k]
    IN  /\ call.pc = "apply"
        /\ now >= call.started + ApplySeconds
        /\ cache_adjust_end(call.endpoint).kind = "return"
        /\ cache_calls' = [cache_calls EXCEPT ![k] =
                              [call EXCEPT !.pc = "idle", !.warmed = TRUE]]
        /\ event' = Event("cache_adjust_resume", call.endpoint, TRUE, 0, "none", TRUE)
        /\ UNCHANGED <<now, cache_configs>>

\* the awaited _adjust_cache_implementation raises (the backend call fails or
\* the sleeping task is cancelled): adjust logs and raises again, _warm_cache
\* is not reached and nothing is taken back
cache_adjust_fail(k) ==
    LET call == cache_calls[k]
    IN  /\ call.pc = "apply"
        /\ cache_calls' = [cache_calls EXCEPT ![k] = [call EXCEPT !.pc = "idle"]]
        /\ event' = Event("cache_adjust_raise", call.endpoint, FALSE, 0, "none", TRUE)
        /\ UNCHANGED <<now, cache_configs>>

\* the instants at which callers and wake-ups are observed
CacheInstants == {0, 1, 299, 300, 599, 600}

(***************************************************************************)
(* actions/load_balancer.py                                                *)
(***************************************************************************)
LoadBalancingAlgorithm ==
    {"round_robin", "least_connections", "weighted_round_robin", "response_time"}

\* adjust, up to its first sleep (in _apply_load_balancer_config); no method
\* ever adds a server list, so the weights are never updated
lb_adjust_begin(e, algorithm) ==
    IF algorithm \notin LoadBalancingAlgorithm
       THEN Raise(<<"Unsupported algorithm: ", algorithm>>)
       ELSE Suspend("apply")

\* faulty variant: the name is stored before it is validated
StoresAlgorithmUnchecked(e, algorithm) ==
    algorithms' = DictSet(algorithms, e, algorithm)

lb_adjust_begin_effect(e, algorithm) ==
    algorithms' =
        IF algorithm \in LoadBalancingAlgorithm
           THEN DictSet(algorithms, e, algorithm) ELSE algorithms

\* the rest of adjust: a health-check task is started, which returns at once
\* for an endpoint without servers
lb_adjust_end(e) == Return

\* ---- health checks ----------------------------------------------------
HEALTHY == "healthy"
DEGRADED == "degraded"
UNHEALTHY == "unhealthy"
ServerHealth == {HEALTHY, DEGRADED, UNHEALTHY}

\* weights are rationals <<numerator, denominator>>
RatAdd(a, b) == <<a[1] * b[2] + b[1] * a[2], a[2] * b[2]>>
RatIsOne(a) == a[1] = a[2]
RatIsZero(a) == a[1] = 0

BackendServer(id, health, weight) == [id |-> id, health |-> health, weight |-> weight]

\* faulty variant: the server taken out of rotation is counted among the
\* servers that share the weight
RedistributedWeightCountingFailed(n) == <<1, n + 1>>

\* redistributed_weight = 1.0 / len(healthy_servers)
RedistributedWeight(n) == <<1, n>>

\* _handle_unhealthy_server, up to its await: list is the endpoint's servers
\* with the new health of server i already stored
_handle_unhealthy_server(list, i) ==
    LET healthy_servers ==
            {j \in 1..Len(list) : list[j].health = HEALTHY /\ list[j].id # list[i].id}
    IN  [j \in 1..Len(list) |->
            IF j \in healthy_servers
               THEN [list[j] EXCEPT !.weight =
                        RedistributedWeight(Cardinality(healthy_servers))]
            ELSE IF j = i THEN [list[j] EXCEPT !.weight = <<0, 1>>]
            ELSE list[j]]

\* _health_check_loop, one server of one iteration: health is what
\* _check_server_health reported for server i
health_check(e, i, health) ==
    LET list == servers[e]
        stored == [list EXCEPT ![i].health = health]
    IN  /\ e \in DOMAIN servers
        /\ i \in 1..Len(list)
        /\ servers' = [servers EXCEPT ![e] =
              IF health = list[i].health THEN list
              ELSE IF health = UNHEALTHY THEN _handle_unhealthy_server(stored, i)
              ELSE stored]
        /\ probe' = [endpoint |-> e, server |-> i, health |-> health,
                     before |-> list[i].health]

NoProbe == [endpoint |-> "none", server |-> 0, health |-> HEALTHY, before |-> HEALTHY]
ServerIds == <<"b1", "b2", "b3", "b4">>
WeightChoices == {<<0, 1>>, <<1, 2>>, <<1, 1>>}
ServerLists ==
    UNION {[1..n -> ServerHealth \X WeightChoices] : n \in 1..MaxServers}
ServerList(hw) == [j \in DOMAIN hw |-> BackendServer(ServerIds[j], hw[j][1], hw[j][2])]

\* ---- adjust called directly by concurrent callers --------------------------
\* faulty variant: the supplied weight is stored as it is
Unclamped(w) == w

RatClamp(w) == IF w[1] < 0 THEN <<0, 1>> ELSE IF w[1] > w[2] THEN <<1, 1>> ELSE w

\* _update_weights: server.weight = max(0.0, min(1.0, weights[server.id]))
_update_weights(list, weights) ==
    [j \in 1..Len(list) |->
        IF list[j].id \in DOMAIN weights
           THEN [list[j] EXCEPT !.weight = RatClamp(weights[list[j].id])]
           ELSE list[j]]

LBCallers == {"k1", "k2"}
AdjustEndpoints == {"e1", "e2"}
AlgorithmChoices == {"round_robin", "response_time", "fastest"}
WeightDicts ==
    {EmptyDict, [b1 |-> <<3, 2>>], [b1 |-> <<1, 4>>, b2 |-> <<-1, 2>>]}
ApplyConfigSeconds == 2

\* applied: _apply_load_balancer_config was entered; loop_started: the
\* health-check task was created
IdleLB ==
    [pc |-> "idle", endpoint |-> "none", algorithm |-> "none", weights |-> EmptyDict,
     started |-> 0, outcome |-> "none", error |-> <<>>, applied |-> FALSE,
     loop_started |-> FALSE]

\* the call runs to the sleep of _apply_load_balancer_config, or raises
lb_adjust_invoke(k, e, algorithm, weights) ==
    LET out == lb_adjust_begin(e, algorithm)
    IN  /\ lb_calls[k].pc = "idle"
        /\ lb_adjust_begin_effect(e, algorithm)
        /\ servers' =
              IF out.kind # "raise" /\ weights # EmptyDict /\ e \in DOMAIN servers
                 THEN [servers EXCEPT ![e] = _update_weights(servers[e], weights)]
                 ELSE servers
        /\ lb_calls' = [lb_calls EXCEPT ![k] =
              [pc |-> IF out.kind = "suspend" THEN out.path ELSE "idle",
               endpoint |-> e, algorithm |-> algorithm, weights |-> weights,
               started |-> now, outcome |-> out.kind, error |-> out.error,
               applied |-> out.kind = "suspend", loop_started |-> FALSE]]
        /\ event' = Event("lb_adjust", e, TRUE, 0, "none", TRUE)
        /\ UNCHANGED <<now, probe>>

\* the call wakes up, creates the health-check task and returns
lb_adjust_resume(k) ==
    LET call == lb_calls[k]
        out == lb_adjust_end(call.endpoint)
    IN  /\ call.pc = "apply"
        /\ now >= call.started + ApplyConfigSeconds
        /\ lb_calls' = [lb_calls EXCEPT ![k] =
              [call EXCEPT !.pc = "idle", !.outcome = out.kind, !.loop_started = TRUE]]
        /\ event' = Event("lb_adjust_resume", call.endpoint, TRUE, 0, "none", TRUE)
        /\ UNCHANGED <<now, algorithms, servers, probe>>

LBInstants == {0, 2, 4}

InitLB ==
    /\ servers = EmptyDict
    /\ probe = NoProbe

InitDirect ==
    /\ scale_run = NoRun
    /\ cache_calls = [k \in CacheCallers |-> IdleCache]
    /\ lb_calls = [k \in LBCallers |-> IdleLB]

InitExecutors ==
    /\ last_scale_operations = EmptyDict
    /\ cache_configs = EmptyDict
    /\ algorithms = EmptyDict

(***************************************************************************)
(* actions/orchestrator.py                                                 *)
(***************************************************************************)
PENDING == "pending"
IN_PROGRESS == "in_progress"
COMPLETED == "completed"
FAILED == "failed"

ActionType == {"scale", "circuit_break", "adjust_cache", "adjust_load_balancer"}
Handlers == {"scale", "circuit_break", "adjust_cache", "adjust_load_balancer"}

Tasks == {"t1", "t2"}

\* the Action objects the callers submit: id |-> type, target, parameters
ActionPool ==
    [a1 |-> [type |-> "scale", target_endpoint |-> "e1",
             parameters |-> [scale_factor |-> 15]],
     a2 |-> [type |-> "scale", target_endpoint |-> "e2",
             parameters |-> [scale_factor |-> 30]],
     a3 |-> [type |-> "circuit_break", target_endpoint |-> "e1",
             parameters |-> [timeout_ms |-> 5000, error_threshold |-> <<1, 10>>]],
     a4 |-> [type |-> "adjust_cache", target_endpoint |-> "e2",
             parameters |-> EmptyDict],
     a5 |-> [type |-> "adjust_load_balancer", target_endpoint |-> "e2",
             parameters |-> [algorithm |-> "fastest"]],
     a6 |-> [type |-> "adjust_load_balancer", target_endpoint |-> "e1",
             parameters |-> EmptyDict],
     a7 |-> [type |-> "scale", target_endpoint |-> "e1",
             parameters |-> [scale_factor |-> 10]]]
ActionIds == DOMAIN ActionPool

\* the parameters each handler reads, with its defaults
ScaleFactorOf(a) == DictGet(a.parameters, "scale_factor", 15)
TimeoutMsOf(a) == DictGet(a.parameters, "timeout_ms", 5000)
ErrorThresholdOf(a) == DictGet(a.parameters, "error_threshold", <<1, 2>>)
TtlSecondsOf(a) == DictGet(a.parameters, "ttl_seconds", 300)
CapacityOf(a) == DictGet(a.parameters, "capacity", 1000)
AlgorithmOf(a) == DictGet(a.parameters, "algorithm", "round_robin")

\* faulty variant: a snapshot taken after the action is returned
FetchesMetrics(e) == "MetricSnapshot"

\* _get_updated_metrics has no body: it returns None
_get_updated_metrics(e) == "None"

Idle == [pc |-> "idle", action |-> "none", path |-> "", start_time |-> 0]
NoResult ==
    [action |-> "none", success |-> FALSE, metrics_after |-> "None",
     duration_ms |-> 0, side_effects |-> <<>>]

\* faulty variant: the error is not described in the side effects
FailedResultWithoutError(id, error) ==
    [action |-> id, success |-> FALSE, metrics_after |-> "None",
     duration_ms |-> 0, side_effects |-> <<>>]

\* the ActionResult of a failure
_create_failed_result(id, error) ==
    [action |-> id, success |-> FALSE, metrics_after |-> "None",
     duration_ms |-> 0, side_effects |-> << <<"Error: ">> \o error >>]

SuccessResult(id, metrics_after, start_time) ==
    [action |-> id, success |-> TRUE, metrics_after |-> metrics_after,
     duration_ms |-> (now - start_time) * 1000, side_effects |-> <<>>]

\* faulty variant: the duplicate check is missing
NeverInProgress(id) == FALSE

\* if action.id in self.active_actions
AlreadyInProgress(id) == id \in active_actions

\* faulty variant: the in-flight entry is removed only when the handler succeeded
CleanupOnSuccessOnly(inflight, id, out) ==
    IF out.kind = "return" THEN inflight \ {id} ELSE inflight

\* finally: del self.active_actions[action.id], however the try block ended
Cleanup(inflight, id, out) == inflight \ {id}

\* a handler, up to its first sleep
HandlerBegin(a) ==
    CASE a.type = "scale" -> scale_begin(a.target_endpoint, ScaleFactorOf(a))
      [] a.type = "circuit_break" -> Return
      [] a.type = "adjust_cache" -> cache_adjust_begin(a.target_endpoint)
      [] a.type = "adjust_load_balancer" ->
            lb_adjust_begin(a.target_endpoint, AlgorithmOf(a))

HandlerBeginEffect(a) ==
    CASE a.type = "scale" -> UNCHANGED <<cbvars, execvars>>
      [] a.type = "circuit_break" ->
            /\ ConfigureEffect(a.target_endpoint, TimeoutMsOf(a), ErrorThresholdOf(a))
            /\ UNCHANGED execvars
      [] a.type = "adjust_cache" ->
            /\ cache_adjust_begin_effect(a.target_endpoint, TtlSecondsOf(a),
                                         CapacityOf(a))
            /\ UNCHANGED <<cbvars, last_scale_operations, algorithms>>
      [] a.type = "adjust_load_balancer" ->
            /\ lb_adjust_begin_effect(a.target_endpoint, AlgorithmOf(a))
            /\ UNCHANGED <<cbvars, last_scale_operations, cache_configs>>

\* a handler, from its sleep to its end
HandlerEnd(a, path) ==
    CASE a.type = "scale" -> scale_end(a.target_endpoint, ScaleFactorOf(a), path)
      [] a.type = "adjust_cache" -> cache_adjust_end(a.target_endpoint)
      [] a.type = "adjust_load_balancer" -> lb_adjust_end(a.target_endpoint)

HandlerEndEffect(a, out) ==
    CASE a.type = "scale" ->
            /\ scale_end_effect(a.target_endpoint, out)
            /\ UNCHANGED <<cbvars, cache_configs, algorithms>>
      [] OTHER -> UNCHANGED <<cbvars, execvars>>

\* what execute_action does with the way the handler ended; inflight is
\* active_actions with the action entered
Settle(t, id, out, inflight, start_time) ==
    CASE out.kind = "suspend" ->
            /\ active_actions' = inflight
            /\ action_status' = [action_status EXCEPT ![id] = IN_PROGRESS]
            /\ calls' = [calls EXCEPT ![t] =
                            [pc |-> "handler", action |-> id, path |-> out.path,
                             start_time |-> start_time]]
            /\ UNCHANGED <<action_completed_at, action_error_message, results>>
      [] out.kind = "return" ->
            /\ action_status' = [action_status EXCEPT ![id] = COMPLETED]
            /\ action_completed_at' = DictSet(action_completed_at, id, now)
            /\ results' = [results EXCEPT ![t] =
                  SuccessResult(id, _get_updated_metrics(ActionPool[id].target_endpoint),
                                start_time)]
            /\ active_actions' = Cleanup(inflight, id, out)
            /\ calls' = [calls EXCEPT ![t] = Idle]
            /\ UNCHANGED action_error_message
      [] out.kind = "raise" ->
            /\ action_status' = [action_status EXCEPT ![id] = FAILED]
            /\ action_error_message' = DictSet(action_error_message, id, out.error)
            /\ results' = [results EXCEPT ![t] =
                              _create_failed_result(id, out.error)]
            /\ active_actions' = Cleanup(inflight, id, out)
            /\ calls' = [calls EXCEPT ![t] = Idle]
            /\ UNCHANGED action_completed_at

\* execute_action from the call to the handler's first sleep, or to the end
\* when the handler never sleeps
execute_action(t, id) ==
    /\ calls[t].pc = "idle"
    /\ ncalls[t] < MaxCalls
    /\ ncalls' = [ncalls EXCEPT ![t] = @ + 1]
    /\ event' = Event("execute_action", ActionPool[id].target_endpoint, TRUE, 0,
                      "none", TRUE)
    /\ IF AlreadyInProgress(id)
          THEN /\ results' = [results EXCEPT ![t] =
                     _create_failed_result(id, <<"Action already in progress">>)]
               /\ UNCHANGED <<active_actions, actionvars, calls, cbvars, execvars>>
       ELSE IF ActionPool[id].type \notin Handlers
          THEN /\ Settle(t, id,
                         Raise(<<"No handler for action type: ", ActionPool[id].type>>),
                         active_actions \cup {id}, now)
               /\ UNCHANGED <<cbvars, execvars>>
       ELSE /\ HandlerBeginEffect(ActionPool[id])
            /\ Settle(t, id, HandlerBegin(ActionPool[id]), active_actions \cup {id},
                      now)
    /\ UNCHANGED now

\* execute_action from the handler's wake-up to the return
execute_action_resume(t) ==
    /\ calls[t].pc = "handler"
    /\ LET id == calls[t].action
           out == HandlerEnd(ActionPool[id], calls[t].path)
       IN  /\ HandlerEndEffect(ActionPool[id], out)
           /\ Settle(t, id, out, active_actions, calls[t].start_time)
    /\ event' = Event("execute_action_resume", ActionPool[calls[t].action].target_endpoint,
                      TRUE, 0, "none", TRUE)
    /\ UNCHANGED <<now, ncalls>>

InitOrchestrator ==
    /\ active_actions = {}
    /\ action_status = [id \in ActionIds |-> PENDING]
    /\ action_completed_at = EmptyDict
    /\ action_error_message = EmptyDict
    /\ calls = [t \in Tasks |-> Idle]
    /\ results = [t \in Tasks |-> NoResult]
    /\ ncalls = [t \in Tasks |-> 0]

(***************************************************************************)
(* config.py, decision/engine.py                                           *)
(* Latencies are in ms, utilisations in percent, rates in hundredths.      *)
(***************************************************************************)
Condition(metric, operator, threshold) ==
    [metric |-> metric, operator |-> operator, threshold |-> threshold]

DEFAULT_POLICIES ==
    << [id |-> "high_latency_policy",
        conditions |-> << Condition("predicted_latency", "gt", 500),
                          Condition("cpu_utilization", "gt", 70) >>,
        actions |-> << [type |-> "scale", parameters |-> [scale_factor |-> 15]] >>,
        enabled |-> TRUE, priority |-> 100],
       [id |-> "error_spike_policy",
        conditions |-> << Condition("error_rate", "gt", 5) >>,
        actions |-> << [type |-> "circuit_break",
                        parameters |-> [timeout_ms |-> 5000,
                                        error_threshold |-> <<1, 10>>]] >>,
        enabled |-> TRUE, priority |-> 90],
       [id |-> "cache_optimization_policy",
        conditions |-> << Condition("cache_hit_rate", "lt", 80) >>,
        actions |-> << [type |-> "adjust_cache",
                        parameters |-> [ttl_seconds |-> 300, capacity |-> 1000]] >>,
        enabled |-> TRUE, priority |-> 80] >>

\* faulty variant: the policies are kept in the order given
AsGiven(given) == given

\* sorted(policies, key = priority, reverse = True): stable, highest first
RECURSIVE InsertByPriority(_, _)
InsertByPriority(p, sorted) ==
    IF sorted = <<>> THEN <<p>>
    ELSE IF Head(sorted).priority >= p.priority
        THEN <<Head(sorted)>> \o InsertByPriority(p, Tail(sorted))
    ELSE <<p>> \o sorted

RECURSIVE SortedByPriority(_)
SortedByPriority(given) ==
    IF given = <<>> THEN <<>>
    ELSE InsertByPriority(given[Len(given)],
                          SortedByPriority(SubSeq(given, 1, Len(given) - 1)))

\* _get_metric_value: the value, or raised for a name it does not know
Value(v) == [raised |-> FALSE, value |-> v]
Raised == [raised |-> TRUE, value |-> 0]

_get_metric_value(metric_name, prediction, metrics) ==
    CASE metric_name = "predicted_latency" -> Value(prediction.predicted_latency)
      [] metric_name = "risk_level" -> Value(prediction.risk_level)
      [] metric_name = "current_latency" -> Value(metrics.latency_ms)
      [] metric_name = "error_rate" -> Value(metrics.error_rate)
      [] metric_name = "cpu_utilization" -> Value(metrics.cpu_utilization)
      [] metric_name = "memory_utilization" -> Value(metrics.memory_utilization)
      [] metric_name = "cache_hit_rate" ->
            Value(DictGet(metrics, "cache_hit_rate", 0))
      [] OTHER -> Raised

\* _evaluate_condition: TRUE/FALSE as a value, or raised for an unknown
\* metric or operator
_evaluate_condition(condition, prediction, metrics) ==
    LET current == _get_metric_value(condition.metric, prediction, metrics)
    IN  IF current.raised THEN Raised
        ELSE CASE condition.operator = "gt" ->
                      Value(current.value > condition.threshold)
               [] condition.operator = "lt" ->
                      Value(current.value < condition.threshold)
               [] condition.operator = "gte" ->
                      Value(current.value >= condition.threshold)
               [] condition.operator = "lte" ->
                      Value(current.value <= condition.threshold)
               [] OTHER -> Raised

\* faulty variant: a condition that raises is passed over
RECURSIVE MatchesFromSkippingErrors(_, _, _, _)
MatchesFromSkippingErrors(conditions, i, prediction, metrics) ==
    IF i > Len(conditions) THEN TRUE
    ELSE LET r == _evaluate_condition(conditions[i], prediction, metrics)
         IN  IF r.raised
                THEN MatchesFromSkippingErrors(conditions, i + 1, prediction, metrics)
             ELSE IF ~r.value THEN FALSE
             ELSE MatchesFromSkippingErrors(conditions, i + 1, prediction, metrics)

\* _matches_conditions: the conditions in order; the first that is false or
\* raises ends the evaluation with False
RECURSIVE MatchesFrom(_, _, _, _)
MatchesFrom(conditions, i, prediction, metrics) ==
    IF i > Len(conditions) THEN TRUE
    ELSE LET r == _evaluate_condition(conditions[i], prediction, metrics)
         IN  IF r.raised THEN FALSE
             ELSE IF ~r.value THEN FALSE
             ELSE MatchesFrom(conditions, i + 1, prediction, metrics)

_matches_conditions(prediction, metrics, policy) ==
    MatchesFrom(policy.conditions, 1, prediction, metrics)

\* _create_action: built from the policy's first action definition; it raises
\* when there is none or when its type is no ActionType
_create_action(policy, endpoint) ==
    IF policy.actions = <<>> THEN [kind |-> "raise", error |-> <<"IndexError">>]
    ELSE IF policy.actions[1].type \notin ActionType
        THEN [kind |-> "raise", error |-> <<"ValueError">>]
    ELSE [kind |-> "action", id |-> <<"action_", now>>,
          type |-> policy.actions[1].type,
          target_endpoint |-> endpoint,
          parameters |-> policy.actions[1].parameters, status |-> PENDING]

\* evaluate: the first enabled policy, in sorted order, whose conditions match
RECURSIVE EvaluateFrom(_, _, _, _)
EvaluateFrom(ordered, i, prediction, metrics) ==
    IF i > Len(ordered) THEN [kind |-> "none"]
    ELSE IF ~ordered[i].enabled
        THEN EvaluateFrom(ordered, i + 1, prediction, metrics)
    ELSE IF _matches_conditions(prediction, metrics, ordered[i])
        THEN _create_action(ordered[i], prediction.endpoint)
    ELSE EvaluateFrom(ordered, i + 1, prediction, metrics)

evaluate(ordered, prediction, metrics) ==
    EvaluateFrom(ordered, 1, prediction, metrics)

(***************************************************************************)
(* feedback/action_tracker.py                                              *)
(* Ratios and averages are exact rationals <<numerator, denominator>> with *)
(* a positive denominator, in lowest terms.                                *)
(***************************************************************************)
Abs(x) == IF x < 0 THEN -x ELSE x

RECURSIVE Gcd(_, _)
Gcd(a, b) == IF b = 0 THEN a ELSE Gcd(b, a % b)

Rat(num, den) ==
    LET g == Gcd(Abs(num), den)
    IN  IF num = 0 THEN <<0, 1>> ELSE <<num \div g, den \div g>>
RatLess(a, b) == a[1] * b[2] < b[1] * a[2]
RatSum(a, b) == Rat(a[1] * b[2] + b[1] * a[2], a[2] * b[2])

min_success_rate == <<7, 10>>
min_improvement == <<1, 5>>

\* ActionEffectiveness(action_type)
ActionEffectiveness ==
    [total_attempts |-> 0, successful_attempts |-> 0,
     average_improvement |-> <<0, 1>>, average_duration_ms |-> <<0, 1>>]

\* a MetricSnapshot, or None where the code has no snapshot
Metrics(latency_ms, error_rate) ==
    [present |-> TRUE, latency_ms |-> latency_ms, error_rate |-> error_rate]
NoMetrics == [present |-> FALSE, latency_ms |-> 0, error_rate |-> 0]

\* _calculate_improvement: a ratio, or None (not defined)
Undefined == [defined |-> FALSE, value |-> <<0, 1>>]
Ratio(before, after) ==
    IF before > 0 THEN [defined |-> TRUE, value |-> Rat(before - after, before)]
    ELSE Undefined

_calculate_improvement(result) ==
    IF ~result.metrics_before.present \/ ~result.metrics_after.present THEN Undefined
    ELSE IF result.type = "circuit_break"
        THEN Ratio(result.metrics_before.error_rate, result.metrics_after.error_rate)
    ELSE IF result.type \in {"scale", "adjust_cache", "adjust_load_balancer"}
        THEN Ratio(result.metrics_before.latency_ms, result.metrics_after.latency_ms)
    ELSE Undefined

\* (average * (total_attempts - 1) + value) / total_attempts
RunningAverage(average, value, total_attempts) ==
    Rat(average[1] * (total_attempts - 1) * value[2] + value[1] * average[2],
        average[2] * value[2] * total_attempts)

NoGate == [endpoint |-> "none", type |-> "none", answer |-> TRUE]
NoBest == [endpoint |-> "none", answer |-> "None"]
EmptyRecord == [n |-> 0, defined |-> 0, improvements |-> <<0, 1>>, durations |-> 0]

\* what record_action_result was passed for the pair: how many results, how
\* many with a ratio, the sum of the ratios, the sum of the durations
Noted(rec, result) ==
    LET improvement == _calculate_improvement(result)
    IN  [n |-> rec.n + 1,
         defined |-> IF improvement.defined THEN rec.defined + 1 ELSE rec.defined,
         improvements |-> IF improvement.defined
                             THEN RatSum(rec.improvements, improvement.value)
                          ELSE rec.improvements,
         durations |-> rec.durations + result.duration_ms]

\* record_action_result: the statistics of the pair after the result
Updated(old, result) ==
    LET total == old.total_attempts + 1
        improvement == _calculate_improvement(result)
    IN  [total_attempts |-> total,
         successful_attempts |-> IF result.success THEN old.successful_attempts + 1
                                 ELSE old.successful_attempts,
         average_improvement |->
             IF improvement.defined
                THEN RunningAverage(old.average_improvement, improvement.value, total)
             ELSE old.average_improvement,
         average_duration_ms |->
             RunningAverage(old.average_duration_ms, <<result.duration_ms, 1>>, total)]

\* history_window = timedelta(hours = 24), in seconds
history_window == 86400

\* what the history keeps of a result: its action and when that was created
HistoryEntry(result) == [action |-> result.action, created_at |-> result.created_at]

\* faulty variant: nothing is ever removed from the history
KeepsEverything(list) == list

\* _cleanup_old_results: the results whose action was created after the cutoff
_cleanup_old_results(list) ==
    LET cutoff_time == now - history_window
        Recent(r) == r.created_at > cutoff_time
    IN  SelectSeq(list, Recent)

record_action_result(result) ==
    LET key == <<result.endpoint, result.type>>
    IN  /\ recent_results' =
              DictSet(recent_results, result.endpoint,
                      _cleanup_old_results(
                          Append(DictGet(recent_results, result.endpoint, <<>>),
                                 HistoryEntry(result))))
        /\ effectiveness' =
              DictSet(effectiveness, key,
                      Updated(DictGet(effectiveness, key, ActionEffectiveness), result))
        /\ recorded' = DictSet(recorded, key,
                               Noted(DictGet(recorded, key, EmptyRecord), result))
        /\ type_order' =
              LET types == DictGet(type_order, result.endpoint, <<>>)
              IN  DictSet(type_order, result.endpoint,
                          IF \E i \in DOMAIN types : types[i] = result.type THEN types
                          ELSE Append(types, result.type))
        /\ gate' = NoGate
        /\ best' = NoBest

\* faulty variant: only the success rate is consulted
TriesOnSuccessRateOnly(e, type) ==
    \/ <<e, type>> \notin DOMAIN effectiveness
    \/ ~RatLess(<<effectiveness[<<e, type>>].successful_attempts,
                  effectiveness[<<e, type>>].total_attempts>>, min_success_rate)

\* should_try_action: what it returns
should_try_action(e, type) ==
    IF <<e, type>> \notin DOMAIN effectiveness THEN TRUE
    ELSE LET eff == effectiveness[<<e, type>>]
             success_rate == IF eff.total_attempts > 0
                                THEN <<eff.successful_attempts, eff.total_attempts>>
                                ELSE <<0, 1>>
         IN  IF RatLess(success_rate, min_success_rate) THEN FALSE
             ELSE IF RatLess(eff.average_improvement, min_improvement) THEN FALSE
             ELSE TRUE

should_try_action_call(e, type) ==
    /\ gate' = [endpoint |-> e, type |-> type, answer |-> should_try_action(e, type)]
    /\ UNCHANGED <<effectiveness, recorded, type_order, best, recent_results>>

\* the loop of get_best_action_type over the endpoint's types, in the order of
\* the dictionary, from the i-th on
RECURSIVE BestFrom(_, _, _, _)
BestFrom(e, i, best_type, best_improvement) ==
    IF i > Len(type_order[e]) THEN best_type
    ELSE LET average == effectiveness[<<e, type_order[e][i]>>].average_improvement
         IN  IF RatLess(best_improvement, average)
                THEN BestFrom(e, i + 1, type_order[e][i], average)
                ELSE BestFrom(e, i + 1, best_type, best_improvement)

\* best_type = None, best_improvement = -1
get_best_action_type(e) ==
    IF e \notin DOMAIN type_order THEN "None"
    ELSE BestFrom(e, 1, "None", <<-1, 1>>)

get_best_action_type_call(e) ==
    /\ best' = [endpoint |-> e, answer |-> get_best_action_type(e)]
    /\ UNCHANGED <<effectiveness, recorded, type_order, gate, recent_results>>

\* results whose latency and error rate got better, worse, and twice as bad
BestResults ==
    {[endpoint |-> e, type |-> t, success |-> TRUE, duration_ms |-> 100,
      action |-> "a", created_at |-> 0, metrics_before |-> Metrics(500, 10), metrics_after |-> after] :
        e \in {"e1", "e2"}, t \in {"scale", "circuit_break"},
        after \in {Metrics(250, 5), Metrics(750, 15), Metrics(1000, 20)}}

\* the results handed to record_action_result
MetricPairs ==
    {<<NoMetrics, NoMetrics>>, <<Metrics(500, 10), NoMetrics>>,
     <<Metrics(500, 10), Metrics(250, 5)>>, <<Metrics(500, 10), Metrics(500, 8)>>,
     <<Metrics(0, 0), Metrics(250, 5)>>}
ActionResults ==
    {[endpoint |-> "e1", type |-> t, success |-> s, duration_ms |-> d,
      action |-> "a", created_at |-> 0, metrics_before |-> m[1], metrics_after |-> m[2]] :
        t \in {"scale", "circuit_break"}, s \in BOOLEAN, d \in {100, 400},
        m \in MetricPairs}
ScaleResults ==
    {[endpoint |-> "e1", type |-> "scale", success |-> s, duration_ms |-> 100,
      action |-> "a", created_at |-> 0, metrics_before |-> Metrics(500, 10), metrics_after |-> after] :
        s \in BOOLEAN, after \in {NoMetrics, Metrics(250, 5)}}

RecordedIn(dict) ==
    IF DOMAIN dict = {} THEN 0
    ELSE LET total[keys \in SUBSET DOMAIN dict] ==
                 IF keys = {} THEN 0
                 ELSE LET k == CHOOSE x \in keys : TRUE
                      IN  dict[k].n + total[keys \ {k}]
         IN  total[DOMAIN dict]

InitTracker ==
    /\ effectiveness = EmptyDict
    /\ recorded = EmptyDict
    /\ gate = NoGate
    /\ type_order = EmptyDict
    /\ best = NoBest
    /\ recent_results = EmptyDict

(***************************************************************************)
(* service.py                                                              *)
(***************************************************************************)
\* SelfHealingService(policies): its engine holds the sorted policies
ServicePolicies == SortedByPriority(DEFAULT_POLICIES)

\* ---- the engine constructed and called directly ---------------------------
PolicyPool ==
    << [id |-> "p_latency",
        conditions |-> << Condition("predicted_latency", "gt", 500) >>,
        actions |-> << [type |-> "scale", parameters |-> [scale_factor |-> 15]],
                       [type |-> "adjust_cache", parameters |-> [ttl_seconds |-> 60]] >>,
        priority |-> 100],
       [id |-> "p_errors",
        conditions |-> << Condition("error_rate", "gte", 5),
                          Condition("cpu_utilization", "lte", 90) >>,
        actions |-> << [type |-> "circuit_break",
                        parameters |-> [timeout_ms |-> 5000]] >>,
        priority |-> 90],
       [id |-> "p_cache",
        conditions |-> << Condition("cache_hit_rate", "lt", 80) >>,
        actions |-> << [type |-> "adjust_cache", parameters |-> [ttl_seconds |-> 300]] >>,
        priority |-> 100],
       [id |-> "p_unknown_metric",
        conditions |-> << Condition("predicted_latency", "gt", 500),
                          Condition("disk_io", "gt", 1) >>,
        actions |-> << [type |-> "adjust_load_balancer",
                        parameters |-> [algorithm |-> "round_robin"]] >>,
        priority |-> 110],
       [id |-> "p_unknown_operator",
        conditions |-> << Condition("error_rate", "eq", 8) >>,
        actions |-> << [type |-> "adjust_load_balancer",
                        parameters |-> [algorithm |-> "response_time"]] >>,
        priority |-> 95] >>

\* the lists of policies handed to the constructor: distinct policies of the
\* pool in any order, each enabled or not
PolicyLists ==
    {[i \in DOMAIN order |->
         [id |-> PolicyPool[order[i][1]].id,
          conditions |-> PolicyPool[order[i][1]].conditions,
          actions |-> PolicyPool[order[i][1]].actions,
          enabled |-> order[i][2],
          priority |-> PolicyPool[order[i][1]].priority]] :
       order \in {o \in UNION {[1..n -> (DOMAIN PolicyPool) \X BOOLEAN] :
                                   n \in 0..MaxPolicies} :
                     \A i, j \in DOMAIN o : i # j => o[i][1] # o[j][1]}}

EnginePredictions ==
    {[endpoint |-> "e1", predicted_latency |-> l, risk_level |-> 80] : l \in {400, 600}}
EngineMetrics ==
    {[endpoint |-> "e1", latency_ms |-> 550, error_rate |-> r, cpu_utilization |-> 75,
      memory_utilization |-> 60, cache_hit_rate |-> 85] : r \in {2, 8}}
    \cup {[endpoint |-> "e1", latency_ms |-> 550, error_rate |-> 2,
            cpu_utilization |-> 75, memory_utilization |-> 60]}

NoDecision ==
    [prediction |-> [endpoint |-> "none", predicted_latency |-> 0, risk_level |-> 0],
     metrics |-> [endpoint |-> "none"], done |-> FALSE, result |-> [kind |-> "none"]]

\* DecisionEngine(given).evaluate(prediction, metrics)
evaluate_call ==
    /\ ~decision.done
    /\ decision' = [decision EXCEPT
                       !.done = TRUE,
                       !.result = evaluate(policies, decision.prediction,
                                           decision.metrics)]
    /\ UNCHANGED <<policies, issued>>

\* one more evaluate call on the engine; the action it returns, if any, is kept
evaluate_issue(prediction, metrics) ==
    LET result == evaluate(policies, prediction, metrics)
    IN  /\ Len(issued) < MaxIssued
        /\ issued' = IF result.kind = "action" THEN Append(issued, result) ELSE issued
        /\ event' = Event("evaluate", prediction.endpoint, TRUE, 0, result.kind, TRUE)
        /\ UNCHANGED <<now, policies, decision>>

InitEngine ==
    /\ policies = ServicePolicies
    /\ decision = NoDecision
    /\ issued = <<>>

_is_healing_in_progress(e) == e \in DOMAIN active_operations

\* DecisionEngine.evaluate is a plain function (def, not async def): what it
\* returns, an Action or None, is not awaitable, and "await" of it raises
\* TypeError
Awaitable(decided) == FALSE
AwaitError(decided) ==
    IF decided.kind = "action"
       THEN <<"TypeError: object Action can't be used in 'await' expression">>
       ELSE <<"TypeError: object NoneType can't be used in 'await' expression">>

Callers == {"c1", "c2", "c3"}
NoOutcome == [endpoint |-> "none", outcome |-> "none", error |-> <<>>]

\* faulty variant: the except block logs the exception and does not raise it again
SwallowedOutcome(e, error) == [endpoint |-> e, outcome |-> "returned None", error |-> error]

\* except Exception: ... raise
ReRaised(e, error) == [endpoint |-> e, outcome |-> "raised", error |-> error]

\* the except block: the endpoint's marker is removed if it is there
ClearMarker(e) ==
    active_operations' =
        IF e \in DOMAIN active_operations THEN DictDel(active_operations, e)
        ELSE active_operations

\* faulty variant: the call gets past the await and past the tracker's answer
\* and marks the endpoint active for the action the engine returned
MarksEndpointActive(c, prediction, metrics) ==
    LET e == prediction.endpoint
        decided == evaluate(policies, prediction, metrics)
    IN  /\ IF _is_healing_in_progress(e)
              THEN /\ hp_results' = [hp_results EXCEPT ![c] =
                          [endpoint |-> e, outcome |-> "returned None",
                           error |-> <<>>]]
                   /\ UNCHANGED active_operations
           ELSE IF decided.kind = "raise"
              THEN /\ ClearMarker(e)
                   /\ hp_results' = [hp_results EXCEPT ![c] = ReRaised(e, decided.error)]
           ELSE IF decided.kind = "none"
              THEN /\ hp_results' = [hp_results EXCEPT ![c] =
                          [endpoint |-> e, outcome |-> "returned None",
                           error |-> <<>>]]
                   /\ UNCHANGED active_operations
           ELSE /\ active_operations' = DictSet(active_operations, e, now)
                /\ hp_results' = [hp_results EXCEPT ![c] =
                       [endpoint |-> e, outcome |-> "executing", error |-> <<>>]]
        /\ hp_decided' = [hp_decided EXCEPT ![c] =
              IF _is_healing_in_progress(e) THEN "not evaluated"
              ELSE IF decided.kind = "action" THEN decided.type
              ELSE decided.kind]
        /\ event' = Event("handle_prediction", e, TRUE, 0, decided.kind, TRUE)
        /\ UNCHANGED <<now, shutdown_call>>

\* handle_prediction.  The statement
\*     action = await self.decision_engine.evaluate(prediction, current_metrics)
\* never completes: evaluate either raises or returns a value that cannot be
\* awaited, the except block runs, and the exception goes to the caller.  The
\* statements after it (gating, marking the endpoint active, execution,
\* recording) are therefore never reached, and the call never suspends.
handle_prediction(c, prediction, metrics) ==
    LET e == prediction.endpoint
        decided == evaluate(policies, prediction, metrics)
    IN  /\ IF _is_healing_in_progress(e)
              THEN /\ hp_results' = [hp_results EXCEPT ![c] =
                          [endpoint |-> e, outcome |-> "returned None",
                           error |-> <<>>]]
                   /\ UNCHANGED active_operations
           ELSE IF decided.kind = "raise"
              THEN /\ ClearMarker(e)
                   /\ hp_results' = [hp_results EXCEPT ![c] = ReRaised(e, decided.error)]
           ELSE /\ ~Awaitable(decided)
                /\ ClearMarker(e)
                /\ hp_results' = [hp_results EXCEPT ![c] =
                                     ReRaised(e, AwaitError(decided))]
        /\ hp_decided' = [hp_decided EXCEPT ![c] =
              IF _is_healing_in_progress(e) THEN "not evaluated"
              ELSE IF decided.kind = "action" THEN decided.type
              ELSE decided.kind]
        /\ event' = Event("handle_prediction", e, TRUE, 0, decided.kind, TRUE)
        /\ UNCHANGED <<now, shutdown_call>>

\* get_healing_status: whether the endpoint is marked active, and whether
\* analyze_trends has results of the endpoint to report on (it returns an
\* empty dict for an endpoint nothing was recorded for)
get_healing_status(e) ==
    [active_healing |-> _is_healing_in_progress(e),
     has_trends |-> e \in DOMAIN recent_results /\ recent_results[e] # <<>>]

\* the methods class ActionOrchestrator defines
OrchestratorMethods ==
    {"__init__", "execute_action", "_handle_scaling", "_handle_circuit_breaker",
     "_handle_cache_adjustment", "_handle_load_balancer", "_get_updated_metrics",
     "_create_failed_result"}

\* await self.action_orchestrator.<method>()
CallOrchestrator(method) ==
    IF method \in OrchestratorMethods THEN Return
    ELSE Raise(<<"AttributeError: 'ActionOrchestrator' object has no attribute ",
                 method>>)

NotShutDown == [pc |-> "idle", outcome |-> "none", error |-> <<>>]

\* shutdown, one pass of its loop and what follows it: while an endpoint is
\* marked active it sleeps a second and looks again; then it calls the
\* orchestrator's shutdown, and the except block raises again what that raises
shutdown ==
    /\ shutdown_call.pc \in {"idle", "waiting"}
    /\ IF DOMAIN active_operations # {}
          THEN shutdown_call' = [shutdown_call EXCEPT !.pc = "waiting"]
       ELSE LET out == CallOrchestrator("shutdown")
            IN  shutdown_call' =
                   [pc |-> "done",
                    outcome |-> IF out.kind = "raise" THEN "raised" ELSE "returned",
                    error |-> out.error]
    /\ event' = Event("shutdown", "none", TRUE, 0, "none", TRUE)
    /\ UNCHANGED <<now, active_operations, hp_results, hp_decided>>

InitService ==
    /\ active_operations = EmptyDict
    /\ hp_results = [c \in Callers |-> NoOutcome]
    /\ hp_decided = [c \in Callers |-> "not evaluated"]
    /\ shutdown_call = NotShutDown

\* the predictions and metric snapshots the callers hand in
Predictions ==
    {[endpoint |-> e, predicted_latency |-> l, risk_level |-> 80] :
        e \in Endpoints, l \in {400, 600}}
MetricsFor(e) ==
    {[endpoint |-> e, latency_ms |-> 550, error_rate |-> r, cpu_utilization |-> 75,
      memory_utilization |-> 60, cache_hit_rate |-> 85] : r \in {2, 8}}
    \cup {[endpoint |-> e, latency_ms |-> 550, error_rate |-> 2,
           cpu_utilization |-> 75, memory_utilization |-> 60]}

(***************************************************************************)
(* Specifications                                                          *)
(***************************************************************************)
InitProgram ==
    /\ now = 0
    /\ event = NoEvent
    /\ InitCB
    /\ InitExecutors
    /\ InitOrchestrator
    /\ InitService
    /\ InitDirect

Init ==
    /\ InitProgram
    /\ InitScale
    /\ InitLB
    /\ InitEngine
    /\ InitTracker

\* the circuit breaker driven directly: configure, request traffic, monitor, clock
Configure ==
    /\ \E e \in CircuitEndpoints, tm \in TimeoutChoices, th \in ThresholdChoices :
          configure(e, tm, th)
    /\ UNCHANGED <<execvars, orchvars, svcvars, unitvars>>

RecordResult ==
    /\ \E e \in CircuitEndpoints, s \in BOOLEAN, l \in LatencyChoices :
          record_result(e, s, l)
    /\ UNCHANGED <<execvars, orchvars, svcvars, unitvars>>

RecordResultUnconfigured ==
    /\ \E e \in CircuitEndpoints, s \in BOOLEAN, l \in LatencyChoices :
          record_result_unconfigured(e, s, l)
    /\ UNCHANGED <<execvars, orchvars, svcvars, unitvars>>

ShouldAllowRequest ==
    /\ \E e \in Endpoints : should_allow_request_call(e)
    /\ UNCHANGED <<execvars, orchvars, svcvars, unitvars>>

MonitorCircuit ==
    /\ \E e \in CircuitEndpoints : _monitor_circuit(e)
    /\ UNCHANGED <<execvars, orchvars, svcvars, unitvars>>

ClockCB == TickCB /\ UNCHANGED <<execvars, orchvars, svcvars, unitvars>>

NextCB ==
    \/ Configure
    \/ RecordResult
    \/ RecordResultUnconfigured
    \/ ShouldAllowRequest
    \/ MonitorCircuit
    \/ ClockCB

SpecCB == Init /\ [][NextCB]_vars

\* the orchestrator driven by concurrent callers
TickStepsOrch == {300}

OrchActionIds == ActionIds \ {"a7"}

ExecuteAction ==
    /\ \E t \in Tasks, id \in OrchActionIds : execute_action(t, id)
    /\ UNCHANGED <<svcvars, unitvars>>

ExecuteActionResume ==
    /\ \E t \in Tasks : execute_action_resume(t)
    /\ UNCHANGED <<svcvars, unitvars>>

ClockOrch ==
    /\ \E dt \in TickStepsOrch : Tick(dt, MaxTimeOrch)
    /\ UNCHANGED <<cbvars, execvars, orchvars, svcvars, unitvars>>

NextOrch ==
    \/ ExecuteAction
    \/ ExecuteActionResume
    \/ ClockOrch

SpecOrch == Init /\ [][NextOrch]_vars

\* the service driven by callers handing in predictions
HandlePrediction ==
    /\ \E c \in Callers, p \in Predictions :
          \E m \in MetricsFor(p.endpoint) : handle_prediction(c, p, m)
    /\ UNCHANGED <<cbvars, execvars, orchvars, unitvars>>

Shutdown ==
    /\ shutdown
    /\ UNCHANGED <<cbvars, execvars, orchvars, unitvars>>

NextService == HandlePrediction \/ Shutdown

SpecService == Init /\ [][NextService]_vars

\* the autoscaler called directly by concurrent callers
ScaleInvoke ==
    /\ \E s \in Scalers, e \in ScaleEndpoints, f \in ScaleFactorChoices :
          scale_invoke(s, e, f)
    /\ UNCHANGED <<cbvars, cache_configs, algorithms, orchvars, svcvars, stepvars, directvars, lbvars,
                   enginevars, trackvars>>

ScaleResume ==
    /\ \E s \in Scalers : scale_resume(s)
    /\ UNCHANGED <<cbvars, cache_configs, algorithms, orchvars, svcvars, stepvars, directvars, lbvars,
                   enginevars, trackvars>>

ClockScale ==
    /\ \E t \in ScaleInstants : t > now /\ now' = t
    /\ UNCHANGED <<event, cbvars, execvars, orchvars, svcvars, unitvars>>

NextScale ==
    \/ ScaleInvoke
    \/ ScaleResume
    \/ ClockScale

SpecScale == Init /\ [][NextScale]_vars

\* the cache manager called directly by concurrent callers
CacheAdjust ==
    /\ \E k \in CacheCallers, e \in CacheEndpoints, c \in CacheSettings :
          cache_adjust_invoke(k, e, c.ttl_seconds, c.capacity)
    /\ UNCHANGED <<cbvars, last_scale_operations, algorithms, orchvars, svcvars, stepvars,
                   scalevars, lbvars, enginevars, trackvars, lb_calls>>

CacheAdjustResume ==
    /\ \E k \in CacheCallers : cache_adjust_resume(k)
    /\ UNCHANGED <<cbvars, last_scale_operations, algorithms, orchvars, svcvars, stepvars,
                   scalevars, lbvars, enginevars, trackvars, lb_calls>>

ClockCache ==
    /\ \E t \in CacheInstants : t > now /\ now' = t
    /\ UNCHANGED <<event, cbvars, execvars, orchvars, svcvars, unitvars>>

NextCache ==
    \/ CacheAdjust
    \/ CacheAdjustResume
    \/ ClockCache

SpecCache == Init /\ [][NextCache]_vars

\* the cache manager with a backend call that may fail
CacheAdjustFail ==
    /\ \E k \in CacheCallers : cache_adjust_fail(k)
    /\ UNCHANGED <<cbvars, last_scale_operations, algorithms, orchvars, svcvars, stepvars,
                   scalevars, lbvars, enginevars, trackvars, lb_calls>>

NextCacheFail ==
    \/ CacheAdjust
    \/ CacheAdjustResume
    \/ CacheAdjustFail
    \/ ClockCache

SpecCacheFail == Init /\ [][NextCacheFail]_vars

\* the load balancer's adjust called directly by concurrent callers, for an
\* endpoint with two servers and one without any
InitLBAdjust ==
    /\ InitProgram
    /\ InitScale
    /\ InitEngine
    /\ InitTracker
    /\ probe = NoProbe
    /\ servers = [e1 |-> ServerList(<< <<HEALTHY, <<1, 2>>>>, <<HEALTHY, <<1, 2>>>> >>)]

LBAdjust ==
    /\ \E k \in LBCallers, e \in AdjustEndpoints, a \in AlgorithmChoices,
          w \in WeightDicts : lb_adjust_invoke(k, e, a, w)
    /\ UNCHANGED <<cbvars, last_scale_operations, cache_configs, orchvars, svcvars, stepvars,
                   scalevars, enginevars, trackvars, cache_calls>>

LBAdjustResume ==
    /\ \E k \in LBCallers : lb_adjust_resume(k)
    /\ UNCHANGED <<cbvars, last_scale_operations, cache_configs, orchvars, svcvars, stepvars,
                   scalevars, enginevars, trackvars, cache_calls>>

ClockLB ==
    /\ \E t \in LBInstants : t > now /\ now' = t
    /\ UNCHANGED <<event, cbvars, execvars, orchvars, svcvars, unitvars>>

NextLBAdjust ==
    \/ LBAdjust
    \/ LBAdjustResume
    \/ ClockLB

SpecLBAdjust == InitLBAdjust /\ [][NextLBAdjust]_vars

\* one scale call at a time, followed from sleep to sleep
ScaleRunRest ==
    <<cbvars, cache_configs, algorithms, orchvars, svcvars, scalevars, lbvars,
      enginevars, trackvars, directvars>>

ScaleRunInvoke ==
    /\ \E e \in ScaleEndpoints, c \in InstanceCounts, f \in RunFactorChoices :
          scale_run_invoke(e, c, f)
    /\ UNCHANGED ScaleRunRest

ScaleRunScaled == scale_run_scaled /\ UNCHANGED ScaleRunRest

ScaleRunPoll == scale_run_poll /\ UNCHANGED ScaleRunRest

NextScaleRun ==
    \/ ScaleRunInvoke
    \/ ScaleRunScaled
    \/ ScaleRunPoll

SpecScaleRun == Init /\ [][NextScaleRun]_vars

\* the instance counts scale asks for, for each count the infrastructure can
\* report and each scale factor
InitScalePlan ==
    /\ InitProgram
    /\ InitLB
    /\ InitEngine
    /\ InitTracker
    /\ scale_calls = [s \in Scalers |-> IdleScale]
    /\ scale_plan \in {[current |-> c, scale_factor |-> f, waits_ok |-> w,
                         requests |-> <<>>, done |-> FALSE] :
                            c \in 0..MaxCurrent, f \in PlanFactorChoices,
                            w \in 0..MaxWaits}

ScalePlan ==
    /\ ~scale_plan.done
    /\ scale_plan' = [scale_plan EXCEPT
                         !.requests = ScaleRequestsUntil(scale_plan.current,
                                                         scale_plan.scale_factor,
                                                         scale_plan.waits_ok),
                         !.done = TRUE]
    /\ UNCHANGED <<now, event, cbvars, execvars, orchvars, svcvars, stepvars, directvars, scale_calls, lbvars,
                   enginevars, trackvars>>

NextScalePlan == ScalePlan

SpecScalePlan == InitScalePlan /\ [][NextScalePlan]_vars

\* the load balancer's health checks, for every list of servers an endpoint
\* can have and every result a check can report
LBEndpoints == {"e1"}

InitHealthCheck ==
    /\ InitProgram
    /\ InitScale
    /\ InitEngine
    /\ InitTracker
    /\ probe = NoProbe
    /\ servers \in {[e \in LBEndpoints |-> ServerList(hw)] : hw \in ServerLists}

HealthCheck ==
    /\ \E e \in LBEndpoints, i \in 1..MaxServers, h \in ServerHealth :
          health_check(e, i, h)
    /\ UNCHANGED <<now, event, cbvars, execvars, orchvars, svcvars, stepvars, directvars, scalevars,
                   enginevars, trackvars>>

NextHealthCheck == HealthCheck

SpecHealthCheck == InitHealthCheck /\ [][NextHealthCheck]_vars

\* the decision engine, for every list of policies it can be given and every
\* prediction and metric snapshot
InitEvaluate ==
    /\ InitProgram
    /\ InitScale
    /\ InitLB
    /\ InitTracker
    /\ policies \in {SortedByPriority(given) : given \in PolicyLists}
    /\ issued = <<>>
    /\ decision \in {[prediction |-> p, metrics |-> m, done |-> FALSE,
                       result |-> [kind |-> "none"]] :
                          p \in EnginePredictions, m \in EngineMetrics}

Evaluate ==
    /\ evaluate_call
    /\ UNCHANGED <<now, event, cbvars, execvars, orchvars, svcvars, stepvars, directvars, scalevars, lbvars,
                   trackvars>>

NextEvaluate == Evaluate

SpecEvaluate == InitEvaluate /\ [][NextEvaluate]_vars

\* policies whose action list is empty or names no ActionType, among others
UnbuildablePool ==
    << [id |-> "p_no_actions",
        conditions |-> << Condition("predicted_latency", "gt", 500) >>,
        actions |-> <<>>,
        priority |-> 110],
       [id |-> "p_unknown_type",
        conditions |-> << Condition("error_rate", "gte", 5) >>,
        actions |-> << [type |-> "restart", parameters |-> [delay |-> 1]] >>,
        priority |-> 95],
       PolicyPool[1],
       PolicyPool[2] >>

ActionPolicyLists ==
    {[i \in DOMAIN order |->
         [id |-> UnbuildablePool[order[i][1]].id,
          conditions |-> UnbuildablePool[order[i][1]].conditions,
          actions |-> UnbuildablePool[order[i][1]].actions,
          enabled |-> order[i][2],
          priority |-> UnbuildablePool[order[i][1]].priority]] :
       order \in {o \in UNION {[1..n -> (DOMAIN UnbuildablePool) \X BOOLEAN] :
                                   n \in 0..MaxPolicies} :
                     \A i, j \in DOMAIN o : i # j => o[i][1] # o[j][1]}}

InitEvaluateActions ==
    /\ InitProgram
    /\ InitScale
    /\ InitLB
    /\ InitTracker
    /\ policies \in {SortedByPriority(given) : given \in ActionPolicyLists}
    /\ issued = <<>>
    /\ decision \in {[prediction |-> p, metrics |-> m, done |-> FALSE,
                       result |-> [kind |-> "none"]] :
                          p \in EnginePredictions, m \in EngineMetrics}

SpecEvaluateActions == InitEvaluateActions /\ [][NextEvaluate]_vars

\* the service's engine called again and again while the clock advances
EvaluateIssue ==
    /\ \E p \in Predictions : \E m \in MetricsFor(p.endpoint) : evaluate_issue(p, m)
    /\ UNCHANGED <<cbvars, execvars, orchvars, svcvars, stepvars, scalevars, lbvars, trackvars,
                   directvars>>

ClockEngine ==
    /\ Tick(1, MaxTimeEngine)
    /\ UNCHANGED <<cbvars, execvars, orchvars, svcvars, unitvars>>

NextEngineIds ==
    \/ EvaluateIssue
    \/ ClockEngine

SpecEngineIds == Init /\ [][NextEngineIds]_vars

\* the tracker called directly: results of every kind, a few of them
TrackerRest == <<now, event, cbvars, execvars, orchvars, svcvars, stepvars, directvars, scalevars, lbvars,
                 enginevars>>

RecordActionResult ==
    /\ RecordedIn(recorded) < MaxHistory
    /\ \E r \in ActionResults : record_action_result(r)
    /\ UNCHANGED TrackerRest

ShouldTryAction ==
    /\ \E e \in {"e1"}, t \in {"scale", "circuit_break"} : should_try_action_call(e, t)
    /\ UNCHANGED TrackerRest

NextTracker ==
    \/ RecordActionResult
    \/ ShouldTryAction

SpecTracker == Init /\ [][NextTracker]_vars

\* the tracker called directly: many results for one pair
RecordScaleResult ==
    /\ RecordedIn(recorded) < MaxAttempts
    /\ \E r \in ScaleResults : record_action_result(r)
    /\ UNCHANGED TrackerRest

NextTrackerGate ==
    \/ RecordScaleResult
    \/ ShouldTryAction

SpecTrackerGate == Init /\ [][NextTrackerGate]_vars

\* the tracker called directly: results with improvements of either sign
RecordBestResult ==
    /\ RecordedIn(recorded) < MaxHistory
    /\ \E r \in BestResults : record_action_result(r)
    /\ UNCHANGED TrackerRest

GetBestActionType ==
    /\ \E e \in {"e1", "e2"} : get_best_action_type_call(e)
    /\ UNCHANGED TrackerRest

NextTrackerBest ==
    \/ RecordBestResult
    \/ GetBestActionType

SpecTrackerBest == Init /\ [][NextTrackerBest]_vars

\* the tracker called directly over two days: results for two endpoints, of
\* actions created at or before the time of the call
HistoryInstants == {0, 1, 86400, 86401, 172801}
HistoryResults ==
    {[endpoint |-> e, type |-> "scale", success |-> TRUE, duration_ms |-> 100,
      action |-> id, created_at |-> c, metrics_before |-> Metrics(500, 10),
      metrics_after |-> Metrics(250, 5)] :
        e \in Endpoints, id \in {"a1", "a2"}, c \in HistoryInstants}

RecordDatedResult ==
    /\ RecordedIn(recorded) < MaxHistory
    /\ \E r \in HistoryResults : r.created_at <= now /\ record_action_result(r)
    /\ UNCHANGED TrackerRest

ClockHistory ==
    /\ \E t \in HistoryInstants : t > now /\ now' = t
    /\ UNCHANGED <<event, cbvars, execvars, orchvars, svcvars, unitvars>>

NextTrackerHistory ==
    \/ RecordDatedResult
    \/ ClockHistory

SpecTrackerHistory == Init /\ [][NextTrackerHistory]_vars

\* the orchestrator's results handed to the tracker, as in
\*     result = await self.action_orchestrator.execute_action(action, current_metrics)
\*     await self.action_tracker.record_action_result(result)
\* TrackedResult: the ActionResult as the tracker reads it; metrics_before is
\* the snapshot the caller passed to execute_action
TrackedResult(r) ==
    [endpoint |-> ActionPool[r.action].target_endpoint,
     type |-> ActionPool[r.action].type,
     success |-> r.success, duration_ms |-> r.duration_ms,
     action |-> r.action, created_at |-> 0,
     metrics_before |-> Metrics(500, 10),
     metrics_after |-> IF r.metrics_after = "None" THEN NoMetrics ELSE Metrics(250, 5)]

\* the caller hands the result it holds to the tracker, once
record_task_result(t) ==
    /\ calls[t].pc = "idle"
    /\ results[t].action # "none"
    /\ record_action_result(TrackedResult(results[t]))
    /\ results' = [results EXCEPT ![t] = NoResult]
    /\ UNCHANGED <<now, event, active_actions, actionvars, calls, ncalls>>

HealTasks == {"t1"}
HealCallers == {"c1"}
HealEndpoints == {"e1"}

HealExecute ==
    /\ \E t \in HealTasks, id \in ActionIds : execute_action(t, id)
    /\ UNCHANGED <<svcvars, unitvars>>

HealExecuteResume ==
    /\ \E t \in HealTasks : execute_action_resume(t)
    /\ UNCHANGED <<svcvars, unitvars>>

HealRecord ==
    /\ RecordedIn(recorded) < MaxHistory
    /\ \E t \in HealTasks : record_task_result(t)
    /\ UNCHANGED <<cbvars, execvars, svcvars, stepvars, directvars, scalevars, lbvars,
                   enginevars>>

HealPrediction ==
    /\ \E c \in HealCallers, p \in Predictions :
          /\ p.endpoint \in HealEndpoints
          /\ \E m \in MetricsFor(p.endpoint) : handle_prediction(c, p, m)
    /\ UNCHANGED <<cbvars, execvars, orchvars, unitvars>>

NextHeal ==
    \/ HealExecute
    \/ HealExecuteResume
    \/ HealRecord
    \/ HealPrediction
    \/ ClockOrch

SpecHeal == Init /\ [][NextHeal]_vars

\* the load balancer with servers as their constructor leaves them (healthy,
\* weight 1): adjust with weights of any size, and health checks
InitLBWeights ==
    /\ InitProgram
    /\ InitScale
    /\ InitEngine
    /\ InitTracker
    /\ probe = NoProbe
    /\ servers = [e \in LBEndpoints |->
                     ServerList(<< <<HEALTHY, <<1, 1>>>>, <<HEALTHY, <<1, 1>>>>,
                                   <<HEALTHY, <<1, 1>>>> >>)]

WeightsAdjust ==
    /\ \E e \in LBEndpoints, w \in WeightDicts : lb_adjust_invoke("k1", e, "round_robin", w)
    /\ UNCHANGED <<cbvars, last_scale_operations, cache_configs, orchvars, svcvars, stepvars,
                   scalevars, enginevars, trackvars, cache_calls>>

NextLBWeights ==
    \/ WeightsAdjust
    \/ LBAdjustResume
    \/ ClockLB
    \/ HealthCheck

SpecLBWeights == InitLBWeights /\ [][NextLBWeights]_vars

\* the four executors driven for two endpoints.  CircuitBreaker, AutoScaler,
\* CacheManager and LoadBalancer are separate objects without a common field:
\* a run drives one of them, with calls for either endpoint in any order.
FrameInstants == {0, 60, 302}
FrameFactorChoices == {15, 50}
FrameAlgorithmChoices == {"response_time"}
FrameWeightDicts == {[b1 |-> <<1, 4>>, b2 |-> <<-1, 2>>]}
FrameServers ==
    [e \in Endpoints |-> ServerList(<< <<HEALTHY, <<1, 2>>>>, <<HEALTHY, <<1, 2>>>> >>)]

InitFrame ==
    /\ InitProgram
    /\ InitScale
    /\ InitEngine
    /\ InitTracker
    /\ probe = NoProbe
    /\ servers = FrameServers

Driven ==
    (IF configs # EmptyDict THEN {"circuit"} ELSE {})
    \cup (IF last_scale_operations # EmptyDict
              \/ \E s \in Scalers : scale_calls[s] # IdleScale
           THEN {"scale"} ELSE {})
    \cup (IF cache_configs # EmptyDict \/ \E k \in CacheCallers : cache_calls[k] # IdleCache
           THEN {"cache"} ELSE {})
    \cup (IF algorithms # EmptyDict \/ servers # FrameServers \/ probe # NoProbe
              \/ \E k \in LBCallers : lb_calls[k] # IdleLB
           THEN {"lb"} ELSE {})

FrameConfigure ==
    /\ Driven \subseteq {"circuit"}
    /\ \E e \in Endpoints, tm \in TimeoutChoices :
          monitors[e] <= 1 /\ configure(e, tm, <<1, 10>>)
    /\ UNCHANGED <<execvars, orchvars, svcvars, unitvars>>

\* the callers report the outcome of requests that the circuit admitted
FrameRecordResult ==
    /\ Driven \subseteq {"circuit"}
    /\ \E e \in Endpoints, s \in BOOLEAN :
          should_allow_request(e) /\ record_result(e, s, 100)
    /\ UNCHANGED <<execvars, orchvars, svcvars, unitvars>>

FrameMonitorCircuit ==
    /\ Driven \subseteq {"circuit"}
    /\ \E e \in Endpoints : _monitor_circuit(e)
    /\ UNCHANGED <<execvars, orchvars, svcvars, unitvars>>

FrameScale ==
    /\ Driven \subseteq {"scale"}
    /\ \E s \in Scalers, e \in Endpoints, f \in FrameFactorChoices : scale_invoke(s, e, f)
    /\ UNCHANGED <<cbvars, cache_configs, algorithms, orchvars, svcvars, stepvars, directvars, lbvars,
                   enginevars, trackvars>>

FrameScaleResume ==
    /\ Driven \subseteq {"scale"}
    /\ \E s \in Scalers : scale_resume(s)
    /\ UNCHANGED <<cbvars, cache_configs, algorithms, orchvars, svcvars, stepvars, directvars, lbvars,
                   enginevars, trackvars>>

FrameCacheAdjust ==
    /\ Driven \subseteq {"cache"}
    /\ \E k \in CacheCallers, e \in Endpoints, c \in CacheSettings :
          cache_adjust_invoke(k, e, c.ttl_seconds, c.capacity)
    /\ UNCHANGED <<cbvars, last_scale_operations, algorithms, orchvars, svcvars, stepvars,
                   scalevars, lbvars, enginevars, trackvars, lb_calls>>

FrameCacheAdjustResume ==
    /\ Driven \subseteq {"cache"}
    /\ \E k \in CacheCallers : cache_adjust_resume(k)
    /\ UNCHANGED <<cbvars, last_scale_operations, algorithms, orchvars, svcvars, stepvars,
                   scalevars, lbvars, enginevars, trackvars, lb_calls>>

FrameLBAdjust ==
    /\ Driven \subseteq {"lb"}
    /\ \E e \in Endpoints, a \in FrameAlgorithmChoices, w \in FrameWeightDicts :
          lb_adjust_invoke("k1", e, a, w)
    /\ UNCHANGED <<cbvars, last_scale_operations, cache_configs, orchvars, svcvars, stepvars,
                   scalevars, enginevars, trackvars, cache_calls>>

FrameLBAdjustResume ==
    /\ Driven \subseteq {"lb"}
    /\ lb_adjust_resume("k1")
    /\ UNCHANGED <<cbvars, last_scale_operations, cache_configs, orchvars, svcvars, stepvars,
                   scalevars, enginevars, trackvars, cache_calls>>

FrameHealthCheck ==
    /\ Driven \subseteq {"lb"}
    /\ \E e \in Endpoints, i \in 1..2, h \in {HEALTHY, UNHEALTHY} :
          health_check(e, i, h)
    /\ UNCHANGED <<now, event, cbvars, execvars, orchvars, svcvars, stepvars, directvars, scalevars,
                   enginevars, trackvars>>

ClockFrame ==
    /\ \E t \in FrameInstants : t > now /\ now' = t
    /\ UNCHANGED <<event, cbvars, execvars, orchvars, svcvars, unitvars>>

NextFrame ==
    \/ FrameConfigure
    \/ FrameRecordResult
    \/ FrameMonitorCircuit
    \/ FrameScale
    \/ FrameScaleResume
    \/ FrameCacheAdjust
    \/ FrameCacheAdjustResume
    \/ FrameLBAdjust
    \/ FrameLBAdjustResume
    \/ FrameHealthCheck
    \/ ClockFrame

SpecFrame == InitFrame /\ [][NextFrame]_vars

\* the whole program
Next ==
    NextCB \/ NextOrch \/ NextService \/ NextScale \/ NextTracker \/ NextCache
        \/ NextEngineIds
Spec == Init /\ [][Next]_vars

\* The event loop runs every ready task: a monitor loop whose sleep is over
\* gets its next iteration, and the clock keeps advancing.
FairCB ==
    /\ WF_vars(ClockCB)
    /\ WF_vars(MonitorCircuit)

SpecCBFair == Init /\ [][NextCB]_vars /\ FairCB

(***************************************************************************)
(* Circuit breaker: the claims                                             *)
(***************************************************************************)
Configured(e) == e \in DOMAIN states
Transitions == {<<CLOSED, OPEN>>, <<OPEN, HALF_OPEN>>,
                <<HALF_OPEN, CLOSED>>, <<HALF_OPEN, OPEN>>}

\* the counters of endpoint e as the step that ran left them before any reset:
\* a record_result step has counted its request, and its error if it was one
CountedRequests(e) ==
    IF event'.op = "record_result" /\ event'.endpoint = e
       THEN request_counts[e] + 1 ELSE request_counts[e]
CountedErrors(e) ==
    IF /\ event'.op = "record_result" /\ event'.endpoint = e
       /\ (~event'.success \/ event'.latency_ms > configs[e].timeout_ms)
       THEN error_counts[e] + 1 ELSE error_counts[e]

\* C5: the circuit state of a configured endpoint is always CLOSED, OPEN or
\* HALF_OPEN, and every step that takes a circuit into OPEN is taken with
\* error_count/request_count >= error_threshold on the counters as they are
\* just before the transition resets them.
C5_OpenOnlyAtThreshold ==
    /\ [](\A e \in Endpoints : Configured(e) => states[e] \in CircuitState)
    /\ [][\A e \in Endpoints :
            (Configured(e) /\ states[e] # OPEN /\ states'[e] = OPEN)
            => /\ CountedRequests(e) > 0
               /\ CountedErrors(e) * configs[e].error_threshold[2]
                    >= configs[e].error_threshold[1] * CountedRequests(e)]_vars

\* a record_result has just opened a closed circuit
C5_Witness ==
    /\ event.op = "record_result" /\ event.before = CLOSED
    /\ Configured(event.endpoint) /\ states[event.endpoint] = OPEN

\* C6: right after every circuit state change both counters of the endpoint
\* are 0 and last_state_change is the time of the change.
C6_TransitionResets ==
    [][\A e \in Endpoints :
        (Configured(e) /\ states'[e] # states[e])
        => /\ error_counts'[e] = 0
           /\ request_counts'[e] = 0
           /\ last_state_change'[e] = now']_vars

\* a monitor check has just closed a half-open circuit that had counted probes
C6_Witness ==
    /\ event.op = "monitor" /\ event.before = HALF_OPEN
    /\ states[event.endpoint] = CLOSED
    /\ request_counts[event.endpoint] = 0 /\ error_counts[event.endpoint] = 0
    /\ last_state_change[event.endpoint] = now /\ now > 0

\* C7: a circuit starts CLOSED and only ever changes CLOSED->OPEN,
\* OPEN->HALF_OPEN, HALF_OPEN->CLOSED or HALF_OPEN->OPEN.
C7_OnlyListedTransitions ==
    [][\A e \in Endpoints :
        /\ (~Configured(e) /\ e \in DOMAIN states') => states'[e] = CLOSED
        /\ Configured(e) =>
              /\ e \in DOMAIN states'
              /\ states'[e] # states[e] => <<states[e], states'[e]>> \in Transitions]_vars

\* a configure call on a circuit that is OPEN has just run
C7_Witness ==
    /\ event.op = "configure" /\ event.before = OPEN
    /\ states[event.endpoint] = OPEN

\* C8: should_allow_request returns true for a CLOSED circuit, false for an OPEN
\* one, true for a HALF_OPEN one exactly while request_count < 5, and true for
\* an endpoint that was never configured.
C8_AllowRequest ==
    event.op = "should_allow_request" =>
        LET e == event.endpoint
        IN  event.allowed =
              (\/ ~Configured(e)
               \/ states[e] = CLOSED
               \/ states[e] = HALF_OPEN /\ request_counts[e] < 5)

\* a half-open circuit that has recorded 5 probes has just refused a request
C8_Witness ==
    /\ event.op = "should_allow_request" /\ ~event.allowed
    /\ states[event.endpoint] = HALF_OPEN
    /\ request_counts[event.endpoint] = 5

\* C9: OPEN becomes HALF_OPEN only in a monitor check made 60 s or more after
\* last_state_change; and if the clock can still advance that far, every OPEN
\* circuit eventually becomes HALF_OPEN.
C9_RecoveryAfterTimeout ==
    /\ [][\A e \in Endpoints :
            (Configured(e) /\ states[e] = OPEN /\ states'[e] = HALF_OPEN)
            => /\ event'.op = "monitor" /\ event'.endpoint = e
               /\ now - last_state_change[e] >= 60]_vars
    /\ \A e \in Endpoints :
          (Configured(e) /\ states[e] = OPEN
             /\ last_state_change[e] + 60 <= MaxTimeCB)
          ~> (Configured(e) /\ states[e] = HALF_OPEN)

\* a monitor check has just half-opened a circuit exactly 60 s after it opened
C9_Witness ==
    /\ event.op = "monitor" /\ event.before = OPEN
    /\ states[event.endpoint] = HALF_OPEN
    /\ now = 60 /\ last_state_change[event.endpoint] = 60

\* C10: a HALF_OPEN circuit leaves HALF_OPEN only in a monitor check that finds
\* request_count >= 5, to CLOSED if error_count/request_count < error_threshold
\* and to OPEN otherwise; such a check always decides; record_result never
\* moves it.
ProbeVerdict(e) ==
    IF error_counts[e] * configs[e].error_threshold[2]
         < configs[e].error_threshold[1] * request_counts[e]
       THEN CLOSED ELSE OPEN

C10_HalfOpenDecision ==
    [][\A e \in Endpoints :
        (Configured(e) /\ states[e] = HALF_OPEN) =>
           /\ states'[e] # HALF_OPEN =>
                 /\ event'.op = "monitor" /\ event'.endpoint = e
                 /\ request_counts[e] >= 5
           /\ (event'.op = "monitor" /\ event'.endpoint = e /\ request_counts[e] >= 5)
                 => states'[e] = ProbeVerdict(e)
           /\ request_counts[e] < 5 => states'[e] = HALF_OPEN
           /\ event'.op = "record_result" => states'[e] = HALF_OPEN]_vars

\* a monitor check has just re-opened a half-open circuit
C10_Witness ==
    /\ event.op = "monitor" /\ event.before = HALF_OPEN
    /\ states[event.endpoint] = OPEN

(***************************************************************************)
(* Orchestrator: the claims                                                *)
(***************************************************************************)
Executing(id) == {t \in Tasks : calls[t].pc = "handler" /\ calls[t].action = id}
DuplicateResult(id) ==
    [action |-> id, success |-> FALSE, metrics_after |-> "None", duration_ms |-> 0,
     side_effects |-> << <<"Error: ", "Action already in progress">> >>]
\* the action that caller t passes to execute_action in the step being taken
Submitted(t) ==
    IF calls'[t].pc = "handler" THEN calls'[t].action ELSE results'[t].action

\* C1: at most one handler runs for an action id at any time, and a call made
\* while the id is in flight returns the failed result "already in progress"
\* without running a handler, changing the action or the in-flight set.
C1_SingleExecution ==
    /\ [](\A id \in ActionIds : Cardinality(Executing(id)) <= 1)
    /\ [][\A t \in Tasks :
            (ncalls'[t] # ncalls[t] /\ Submitted(t) \in active_actions)
            => /\ results'[t] = DuplicateResult(Submitted(t))
               /\ calls'[t] = Idle
               /\ UNCHANGED <<active_actions, actionvars, cbvars, execvars>>]_vars

\* one caller's handler is running and another caller's call for the same
\* action has just been refused
C1_Witness ==
    \E t, u \in Tasks :
        /\ calls[t].pc = "handler"
        /\ calls[u] = Idle
        /\ results[u] = DuplicateResult(calls[t].action)
        /\ action_status[calls[t].action] = IN_PROGRESS

\* C2: the in-flight set holds exactly the ids of the calls that were admitted
\* and have not returned, however the handler ended.
C2_InFlightExact ==
    active_actions = {calls[t].action : t \in {u \in Tasks : calls[u].pc = "handler"}}

\* a call whose handler raised after its sleep has returned and left the set,
\* while another admitted call is still running
C2_Witness ==
    \E t, u \in Tasks :
        /\ calls[t].pc = "handler" /\ active_actions = {calls[t].action}
        /\ calls[u] = Idle
        /\ results[u].action = "a2" /\ ~results[u].success
        /\ action_status["a2"] = FAILED

C11_RequestsWithinLimits ==
    \A i \in 1..Len(scale_plan.requests) :
        /\ scale_plan.requests[i] >= min_instances
        /\ scale_plan.requests[i] <= max_instances

\* a gradual scale-up in several steps whose unclamped target exceeds the
\* maximum
C11_Witness ==
    /\ scale_plan.done
    /\ Len(scale_plan.requests) >= 2
    /\ PyRound(scale_plan.current * scale_plan.scale_factor, 10) > max_instances
    /\ scale_plan.requests[Len(scale_plan.requests)] = max_instances

\* a scale call begins in this step and asks for an instance-count change
IssuesChange(s) ==
    /\ scale_calls[s].pc = "idle"
    /\ scale_calls'[s] # scale_calls[s]
    /\ scale_calls'[s].requested # <<>>

\* C12: when scale is invoked twice for an endpoint less than 5 minutes apart,
\* the second invocation asks for no instance-count change after the first
\* has asked for one.
C12_NoSecondMutation ==
    [][\A s \in Scalers : IssuesChange(s) =>
          \A r \in Scalers :
              (/\ scale_calls[r].endpoint = scale_calls'[s].endpoint
               /\ scale_calls[r].requested # <<>>)
              => now - scale_calls[r].started >= cooldown_minutes * 60]_vars

(***************************************************************************)
(* Load balancer: the claims                                               *)
(***************************************************************************)
RECURSIVE SumHealthyFrom(_, _)
SumHealthyFrom(list, j) ==
    IF j > Len(list) THEN <<0, 1>>
    ELSE IF list[j].health = HEALTHY
        THEN RatAdd(list[j].weight, SumHealthyFrom(list, j + 1))
    ELSE SumHealthyFrom(list, j + 1)

HealthyWeight(list) == SumHealthyFrom(list, 1)
SomeHealthy(list) == \E j \in 1..Len(list) : list[j].health = HEALTHY

\* the check made last found a server that was not unhealthy to be unhealthy
BecameUnhealthy == probe.health = UNHEALTHY /\ probe.before # UNHEALTHY

\* C13 as stated: after a server's transition to UNHEALTHY has been handled,
\* its weight is 0 and the weights of the endpoint's HEALTHY servers sum to 1.
C13_HealthyWeightsSumToOne ==
    BecameUnhealthy =>
        /\ RatIsZero(servers[probe.endpoint][probe.server].weight)
        /\ RatIsOne(HealthyWeight(servers[probe.endpoint]))

\* C13 amended: after a server's transition to UNHEALTHY has been handled, its
\* weight is 0, and the weights of the endpoint's HEALTHY servers sum to 1
\* whenever a HEALTHY server is left.
C13_HealthyWeightsSumToOneIfAny ==
    BecameUnhealthy =>
        /\ RatIsZero(servers[probe.endpoint][probe.server].weight)
        /\ SomeHealthy(servers[probe.endpoint])
              => RatIsOne(HealthyWeight(servers[probe.endpoint]))

\* a server has just become unhealthy and two healthy servers share the weight
C13_Witness ==
    /\ BecameUnhealthy
    /\ Cardinality({j \in 1..Len(servers[probe.endpoint]) :
                       servers[probe.endpoint][j].health = HEALTHY}) = 2
    /\ RatIsOne(HealthyWeight(servers[probe.endpoint]))

(***************************************************************************)
(* Decision engine: the claims                                             *)
(***************************************************************************)
\* the enabled policies all of whose conditions hold for the call's inputs
Candidates ==
    {i \in DOMAIN policies :
        /\ policies[i].enabled
        /\ _matches_conditions(decision.prediction, decision.metrics, policies[i])}

BuiltFrom(result, policy) ==
    /\ result.kind = "action"
    /\ result.type = policy.actions[1].type
    /\ result.parameters = policy.actions[1].parameters
    /\ result.target_endpoint = decision.prediction.endpoint
    /\ result.status = PENDING

\* C14: evaluate returns none when no enabled policy matches, and otherwise one
\* action built from the first action definition of an enabled matching policy
\* that no enabled matching policy exceeds in priority.
C14_HighestPriorityMatch ==
    decision.done =>
        IF Candidates = {} THEN decision.result.kind = "none"
        ELSE \E i \in Candidates :
                /\ \A j \in Candidates : policies[j].priority <= policies[i].priority
                /\ BuiltFrom(decision.result, policies[i])

\* two enabled policies of different priority match, the action comes from the
\* one of priority 100, and a disabled policy was passed over
C14_Witness ==
    /\ decision.done
    /\ \E i, j \in Candidates :
          /\ policies[i].priority = 100
          /\ policies[j].priority = 90
          /\ BuiltFrom(decision.result, policies[i])
    /\ \E k \in DOMAIN policies : ~policies[k].enabled

KnownMetrics ==
    {"predicted_latency", "risk_level", "current_latency", "error_rate",
     "cpu_utilization", "memory_utilization", "cache_hit_rate"}
KnownOperators == {"gt", "lt", "gte", "lte"}

\* the policy has a condition whose metric or operator the engine does not know
Malformed(policy) ==
    \E k \in DOMAIN policy.conditions :
        \/ policy.conditions[k].metric \notin KnownMetrics
        \/ policy.conditions[k].operator \notin KnownOperators

RECURSIVE WellFormedOnly(_)
WellFormedOnly(list) ==
    IF list = <<>> THEN <<>>
    ELSE IF Malformed(Head(list)) THEN WellFormedOnly(Tail(list))
    ELSE <<Head(list)>> \o WellFormedOnly(Tail(list))

\* C15: a policy with a condition on an unknown metric or with an unknown
\* operator never matches and raises nothing out of evaluate: the call returns
\* what it returns when those policies are left out, so a lower-priority policy
\* still produces the action.
C15_MalformedPolicySkipped ==
    decision.done =>
        /\ decision.result.kind # "raise"
        /\ decision.result = evaluate(WellFormedOnly(policies), decision.prediction,
                                      decision.metrics)

\* the enabled policy of highest priority has an unknown metric after a
\* condition that holds, and the action comes from a policy of lower priority
C15_Witness ==
    /\ decision.done
    /\ policies # <<>>
    /\ Malformed(policies[1])
    /\ policies[1].enabled
    /\ decision.prediction.predicted_latency > 500
    /\ \E i \in DOMAIN policies :
          /\ i > 1
          /\ ~Malformed(policies[i])
          /\ BuiltFrom(decision.result, policies[i])

(***************************************************************************)
(* Action tracker: the claims                                              *)
(***************************************************************************)
\* C16: should_try_action returns true for a pair with no recorded result;
\* otherwise false when successful_attempts / total_attempts < 0.7 or
\* average_improvement < 0.2, and true otherwise.
C16_GateRule ==
    gate # NoGate =>
        LET key == <<gate.endpoint, gate.type>>
        IN  IF key \notin DOMAIN recorded THEN gate.answer
            ELSE gate.answer <=>
                   ~(\/ 10 * effectiveness[key].successful_attempts
                           < 7 * effectiveness[key].total_attempts
                     \/ 5 * effectiveness[key].average_improvement[1]
                           < effectiveness[key].average_improvement[2])

\* 10 results recorded, 3 of them successes, and the answer is false
C16_Witness ==
    /\ gate.endpoint = "e1"
    /\ gate.type = "scale"
    /\ <<"e1", "scale">> \in DOMAIN effectiveness
    /\ effectiveness[<<"e1", "scale">>].total_attempts = 10
    /\ effectiveness[<<"e1", "scale">>].successful_attempts = 3
    /\ ~gate.answer

\* C17: for every pair, total_attempts is the number of recorded results,
\* average_duration_ms the mean of their durations, and average_improvement
\* the mean of the improvement ratios of the results that have one.
C17_AveragesAreMeans ==
    \A key \in DOMAIN effectiveness :
        /\ effectiveness[key].total_attempts = recorded[key].n
        /\ effectiveness[key].average_duration_ms
              = Rat(recorded[key].durations, recorded[key].n)
        /\ recorded[key].defined > 0 =>
              effectiveness[key].average_improvement
                = Rat(recorded[key].improvements[1],
                      recorded[key].improvements[2] * recorded[key].defined)

(***************************************************************************)
(* Service: the order of decision, gating, execution and recording         *)
(***************************************************************************)
\* C18: a handle_prediction call for which the engine returns none executes
\* and records nothing and returns none; a call for which the engine returns an
\* action returns none when the tracker says not to try it, and otherwise the
\* result that the orchestrator produced and the tracker recorded.
C18_DecisionGatingExecution ==
    \A c \in Callers :
        hp_results[c] # NoOutcome =>
           /\ hp_decided[c] = "none" => hp_results[c].outcome = "returned None"
           /\ hp_decided[c] \in ActionType =>
                 hp_results[c].outcome \in {"returned None", "returned result"}

(***************************************************************************)
(* Orchestrator: a failing executor                                        *)
(***************************************************************************)
\* how the handler of task t's call of id ends in this step: before its first
\* sleep when the call begins, after it when the call resumes
HandlerOutcome(t, id) ==
    IF calls[t].pc = "handler"
       THEN HandlerEnd(ActionPool[id], calls[t].path)
       ELSE HandlerBegin(ActionPool[id])

\* the step is task t's execute_action of id ending with its handler raising
HandlerFails(t, id) ==
    /\ calls'[t] = Idle
    /\ \/ /\ calls[t].pc = "idle"
          /\ ncalls'[t] = ncalls[t] + 1
          /\ results'[t].action = id
          /\ ~AlreadyInProgress(id)
       \/ /\ calls[t].pc = "handler"
          /\ calls[t].action = id
    /\ HandlerOutcome(t, id).kind = "raise"

\* C19: when the handler of an action raises during execute_action, the call
\* returns a result with success false, no metrics_after and one side-effect
\* entry "Error: <message>", and the action is left failed with error_message
\* holding the message.
C19_FailureBecomesFailedResult ==
    [][\A t \in Tasks, id \in ActionIds :
          HandlerFails(t, id) =>
             /\ results'[t].action = id
             /\ results'[t].success = FALSE
             /\ results'[t].metrics_after = "None"
             /\ results'[t].side_effects =
                   << <<"Error: ">> \o HandlerOutcome(t, id).error >>
             /\ action_status'[id] = FAILED
             /\ id \in DOMAIN action_error_message'
             /\ action_error_message'[id] = HandlerOutcome(t, id).error]_vars

\* a call has returned the failed result of a scaling that timed out waiting
\* for healthy instances, and another that of an unsupported algorithm
C19_Witness ==
    \E t, u \in Tasks :
        /\ results[t].action = "a2"
        /\ results[t].success = FALSE
        /\ results[t].side_effects =
              << <<"Error: ", "Timeout waiting for ", "e2", " instances to be healthy">> >>
        /\ action_status["a2"] = FAILED
        /\ results[u].action = "a5"
        /\ results[u].side_effects = << <<"Error: ", "Unsupported algorithm: ", "fastest">> >>
        /\ action_status["a5"] = FAILED

(***************************************************************************)
(* Orchestrator: the life cycle of an Action                               *)
(***************************************************************************)
\* the status changes a step may make to an action: a step in which the
\* handler never sleeps passes through in_progress within the step
Lifecycle ==
    {<<PENDING, IN_PROGRESS>>, <<PENDING, COMPLETED>>, <<PENDING, FAILED>>,
     <<IN_PROGRESS, COMPLETED>>, <<IN_PROGRESS, FAILED>>}

\* C20: an Action starts pending and its status changes only along
\* pending -> in_progress -> completed or failed; it is completed only with
\* completed_at set and failed only with error_message set; once completed or
\* failed its status never changes again, whatever execute_action calls follow.
C20_StatusLifecycle ==
    [][\A id \in ActionIds :
          /\ action_status'[id] # action_status[id] =>
                <<action_status[id], action_status'[id]>> \in Lifecycle
          /\ action_status'[id] = COMPLETED => id \in DOMAIN action_completed_at'
          /\ action_status'[id] = FAILED => id \in DOMAIN action_error_message'
          /\ action_status[id] \in {COMPLETED, FAILED} =>
                action_status'[id] = action_status[id]]_vars

(***************************************************************************)
(* Service: shutdown                                                       *)
(***************************************************************************)
\* C21: shutdown does not finish while an endpoint is marked active, and once
\* no endpoint is marked active it tears down the executors and returns
\* normally, without raising.
C21_ShutdownWaitsThenReturns ==
    [][/\ DOMAIN active_operations # {} => shutdown_call'.pc # "done"
       /\ (shutdown_call.pc # "done" /\ shutdown_call'.pc = "done") =>
              shutdown_call'.outcome = "returned"]_vars

(***************************************************************************)
(* Circuit breaker: one monitor loop per endpoint                          *)
(***************************************************************************)
\* C23: configuring an endpoint for the first time leaves its circuit closed
\* with both counters 0 and its monitor loop started, and however often
\* configure is called for an endpoint, at most one monitor loop runs for it.
C23_OneLoopPerEndpoint ==
    [][\A e \in Endpoints :
          /\ (event'.op = "configure" /\ event'.endpoint = e /\ ~Configured(e)) =>
                /\ states'[e] = CLOSED
                /\ error_counts'[e] = 0
                /\ request_counts'[e] = 0
                /\ monitors'[e] = 1
          /\ monitors'[e] <= 1]_vars

(***************************************************************************)
(* Cache manager: the adjustment cooldown                                  *)
(***************************************************************************)
\* caller k begins an adjust call for endpoint e in this step
AdjustBegins(k, e) ==
    /\ cache_calls[k].pc = "idle"
    /\ cache_calls'[k] # cache_calls[k]
    /\ cache_calls'[k].endpoint = e

\* C24: an adjust call for an endpoint made less than 300 seconds after the
\* endpoint's stored configuration was stamped changes nothing: the stored
\* ttl, capacity and timestamp stay, nothing is applied to the backend and no
\* warming is started; made at or after 300 seconds it stores the new
\* configuration stamped with the current time.
C24_CacheCooldown ==
    [][\A k \in CacheCallers, e \in CacheEndpoints :
          (AdjustBegins(k, e) /\ e \in DOMAIN cache_configs) =>
             IF now - cache_configs[e].last_modified < 300
                THEN /\ cache_configs' = cache_configs
                     /\ ~cache_calls'[k].applied
                     /\ ~cache_calls'[k].warmed
                     /\ cache_calls'[k].pc = "idle"
                ELSE cache_configs'[e] =
                        [ttl_seconds |-> cache_calls'[k].ttl_seconds,
                         capacity |-> cache_calls'[k].capacity,
                         last_modified |-> now]]_vars

\* a configuration was replaced exactly 300 seconds after the first one, and
\* 299 seconds later a call asking for other settings has ended without
\* applying anything
C24_Witness ==
    \E k \in CacheCallers, e \in CacheEndpoints :
        /\ e \in DOMAIN cache_configs
        /\ cache_configs[e].last_modified = 300
        /\ now = 599
        /\ cache_calls[k].pc = "idle"
        /\ cache_calls[k].endpoint = e
        /\ cache_calls[k].started = 599
        /\ ~cache_calls[k].applied
        /\ cache_calls[k].ttl_seconds # cache_configs[e].ttl_seconds

(***************************************************************************)
(* Decision engine: action ids                                             *)
(***************************************************************************)
\* C26: any two evaluate calls that return an action return actions with
\* different ids, whatever the endpoints and however close in time the calls.
C26_UniqueActionIds ==
    \A i, j \in DOMAIN issued : i # j => issued[i].id # issued[j].id

(***************************************************************************)
(* Load balancer: an unsupported algorithm                                 *)
(***************************************************************************)
\* caller k begins an adjust call for endpoint e in this step
LBAdjustBegins(k, e) ==
    /\ lb_calls[k].pc = "idle"
    /\ lb_calls'[k] # lb_calls[k]
    /\ lb_calls'[k].endpoint = e

\* C27: adjust with an algorithm name that is none of round_robin,
\* least_connections, weighted_round_robin, response_time raises an error to
\* its caller, and leaves the stored algorithms and the server weights as
\* they were; no configuration is applied and no health-check loop is started.
C27_UnsupportedAlgorithmFails ==
    [][\A k \in LBCallers, e \in AdjustEndpoints :
          (/\ LBAdjustBegins(k, e)
           /\ lb_calls'[k].algorithm \notin
                 {"round_robin", "least_connections", "weighted_round_robin",
                  "response_time"}) =>
             /\ lb_calls'[k].outcome = "raise"
             /\ lb_calls'[k].error = <<"Unsupported algorithm: ", lb_calls'[k].algorithm>>
             /\ lb_calls'[k].pc = "idle"
             /\ algorithms' = algorithms
             /\ servers' = servers
             /\ ~lb_calls'[k].applied
             /\ ~lb_calls'[k].loop_started]_vars

\* a call that names an unsupported algorithm and gives weights has failed for
\* an endpoint that has servers and a stored algorithm, whose weights an
\* earlier call had changed
C27_Witness ==
    \E k \in LBCallers :
        /\ lb_calls[k].outcome = "raise"
        /\ lb_calls[k].endpoint = "e1"
        /\ lb_calls[k].algorithm = "fastest"
        /\ lb_calls[k].weights # EmptyDict
        /\ "e1" \in DOMAIN algorithms
        /\ algorithms["e1"] = "response_time"
        /\ servers["e1"][1].weight = <<1, 4>>
        /\ servers["e1"][2].weight = <<0, 1>>

(***************************************************************************)
(* Action tracker: the best action type                                    *)
(***************************************************************************)
RecordedTypes(e) == {t \in ActionType : <<e, t>> \in DOMAIN effectiveness}

\* C28: get_best_action_type(endpoint) returns a recorded action type of the
\* endpoint whose average_improvement none of its recorded types exceeds, and
\* returns none only when no type has been recorded for the endpoint, whatever
\* the averages, negative ones included.
C28_BestActionType ==
    best.endpoint # "none" =>
        IF RecordedTypes(best.endpoint) = {} THEN best.answer = "None"
        ELSE /\ best.answer \in RecordedTypes(best.endpoint)
             /\ \A t \in RecordedTypes(best.endpoint) :
                   ~RatLess(effectiveness[<<best.endpoint, best.answer>>].average_improvement,
                            effectiveness[<<best.endpoint, t>>].average_improvement)

(***************************************************************************)
(* Autoscaler: gradual and direct scaling                                  *)
(***************************************************************************)
PlanTarget == TargetInstances(scale_plan.current, scale_plan.scale_factor)

\* scale has a current count and a target that differs from it
PlanScales ==
    /\ scale_plan.done
    /\ scale_plan.current >= 1
    /\ PlanTarget # scale_plan.current

\* the counts of a gradual scale-up in steps of step_size, the last step
\* shortened to land on the target
StepsOf(step_size) ==
    [i \in 1..((PlanTarget - scale_plan.current + step_size - 1) \div step_size) |->
        Min(PlanTarget, scale_plan.current + i * step_size)]

Increasing ==
    \A i \in 1..(Len(scale_plan.requests) - 1) :
        scale_plan.requests[i] < scale_plan.requests[i + 1]

\* C30: when the clamped target exceeds twice the current count, scale asks
\* for counts in steps of size ceil((target - current) / 3), the last step
\* shortened to land on the target, and otherwise asks for the target in a
\* single step; the requested counts strictly increase and end at the target.
C30_StepsOfCeilingThird ==
    PlanScales =>
        /\ scale_plan.requests =
              IF PlanTarget > scale_plan.current * 2
                 THEN StepsOf((PlanTarget - scale_plan.current + 2) \div 3)
                 ELSE <<PlanTarget>>
        /\ Increasing
        /\ scale_plan.requests[Len(scale_plan.requests)] = PlanTarget

\* C30, amended: the step size is max(1, floor((target - current) / 3)), and
\* a gradual scale-up stops after the step whose wait for healthy instances
\* times out; it ends at the target when no earlier wait times out.
C30_StepsOfFloorThird ==
    PlanScales =>
        LET step_size == IF PlanTarget - scale_plan.current < 3 THEN 1
                         ELSE (PlanTarget - scale_plan.current) \div 3
            asked == Len(scale_plan.requests)
        IN  /\ IF PlanTarget > scale_plan.current * 2
                  THEN /\ asked >= 1
                       /\ asked <= Len(StepsOf(step_size))
                       /\ \A i \in 1..asked :
                             scale_plan.requests[i] = StepsOf(step_size)[i]
                       /\ asked < Len(StepsOf(step_size)) => asked = scale_plan.waits_ok + 1
                       /\ scale_plan.waits_ok + 1 >= Len(StepsOf(step_size)) =>
                             scale_plan.requests[asked] = PlanTarget
                  ELSE scale_plan.requests = <<PlanTarget>>
            /\ Increasing

\* from 2 instances to 10 in four steps of 2, where steps of 3 would take three
C30_Witness ==
    /\ PlanScales
    /\ scale_plan.current = 2
    /\ scale_plan.waits_ok >= 3
    /\ scale_plan.requests = <<4, 6, 8, 10>>

(***************************************************************************)
(* Service: a prediction that the high-latency policy matches               *)
(***************************************************************************)
\* the prediction and the snapshot of example.py, for an endpoint e
ExamplePrediction(e) == [endpoint |-> e, predicted_latency |-> 600, risk_level |-> 80]
ExampleMetrics(e) ==
    [endpoint |-> e, latency_ms |-> 550, error_rate |-> 2, cpu_utilization |-> 75,
     memory_utilization |-> 60, cache_hit_rate |-> 85]

\* C25: with the default policies, the engine answers the example prediction
\* (predicted latency 600, cpu 75, error rate 0.02) with a scale action of
\* factor 1.5, and a handle_prediction call that was decided this way returns
\* the result of the executed action, after which get_healing_status reports
\* the endpoint as not healing and with a trend to show.
C25_EndToEndScale ==
    [][\A c \in Callers :
          /\ \A e \in Endpoints :
                LET decided == evaluate(policies, ExamplePrediction(e), ExampleMetrics(e))
                IN  /\ decided.kind = "action"
                    /\ decided.type = "scale"
                    /\ decided.parameters.scale_factor = 15
          /\ \A e \in Endpoints :
                (/\ hp_results'[c] # hp_results[c]
                 /\ hp_results'[c].endpoint = e
                 /\ hp_decided'[c] = "scale") =>
                   /\ hp_results'[c].outcome = "returned result"
                   /\ ~get_healing_status(e)'.active_healing
                   /\ get_healing_status(e)'.has_trends]_vars

(***************************************************************************)
(* Executors: what an operation for one endpoint leaves alone              *)
(***************************************************************************)
Weights(list) == [j \in DOMAIN list |-> list[j].weight]

\* the state the executors keep for endpoint e
EndpointState(e) ==
    [circuit |-> DictGet(states, e, "none"),
     error_count |-> DictGet(error_counts, e, 0),
     request_count |-> DictGet(request_counts, e, 0),
     state_changed |-> DictGet(last_state_change, e, -1),
     scaled |-> DictGet(last_scale_operations, e, -1),
     cache_config |-> DictGet(cache_configs, e, CacheConfig(0, 0)),
     cached |-> e \in DOMAIN cache_configs,
     algorithm |-> DictGet(algorithms, e, "none"),
     weights |-> Weights(DictGet(servers, e, <<>>))]

\* the step is an operation for endpoint e: a call of one of the executors'
\* methods for it, the rest of such a call, an iteration of its monitor loop
\* or a health check of one of its servers
ActsFor(e) ==
    \/ /\ event'.op = "configure"
       /\ \E tm \in TimeoutChoices, th \in ThresholdChoices : configure(e, tm, th)
    \/ /\ event'.op = "record_result"
       /\ \E s \in BOOLEAN, l \in LatencyChoices : record_result(e, s, l)
    \/ /\ event'.op = "monitor"
       /\ _monitor_circuit(e)
    \/ /\ scale_calls' # scale_calls
       /\ \/ \E s \in Scalers, f \in FrameFactorChoices : scale_invoke(s, e, f)
          \/ \E s \in Scalers : scale_calls[s].endpoint = e /\ scale_resume(s)
    \/ /\ cache_calls' # cache_calls
       /\ \/ \E k \in CacheCallers, c \in CacheSettings :
                cache_adjust_invoke(k, e, c.ttl_seconds, c.capacity)
          \/ \E k \in CacheCallers : cache_calls[k].endpoint = e /\ cache_adjust_resume(k)
    \/ /\ lb_calls' # lb_calls
       /\ \/ \E k \in LBCallers, a \in FrameAlgorithmChoices, w \in FrameWeightDicts :
                lb_adjust_invoke(k, e, a, w)
          \/ \E k \in LBCallers : lb_calls[k].endpoint = e /\ lb_adjust_resume(k)
    \/ /\ probe' # probe
       /\ \E i \in 1..2, h \in ServerHealth : health_check(e, i, h)

\* C29: a record_result, configure, monitor check, scale, cache adjust,
\* load-balancer adjust or health check for one endpoint leaves the circuit
\* state, the counters, the timestamps, the cache configuration, the algorithm
\* and the server weights of every other endpoint as they were.
C29_OtherEndpointsUntouched ==
    [][\A a \in Endpoints : \A b \in Endpoints \ {a} :
          ActsFor(a) => EndpointState(b)' = EndpointState(b)]_vars

\* a circuit opened by a failure of e1 while e2 has requests counted
C29_Witness ==
    /\ event.op = "record_result"
    /\ event.endpoint = "e1"
    /\ event.before = CLOSED
    /\ "e1" \in DOMAIN states /\ states["e1"] = OPEN
    /\ "e2" \in DOMAIN request_counts /\ request_counts["e2"] > 0

(***************************************************************************)
(* Autoscaler: the waits of a gradual scale-up                             *)
(***************************************************************************)
LastRequested(run) == run.requested[Len(run.requested)]

\* C31: in a gradual scale-up a further count is asked for only in a step
\* that has just seen the healthy count at or above the count asked for
\* before; a wait whose max_attempts polls all saw fewer ends the call with
\* the timeout error, with no further request and no timestamp recorded, and
\* the call ends with that error in no other way.
C31_StepsWaitForHealthy ==
    [][/\ (scale_run.requested # <<>> /\ scale_run'.requested # scale_run.requested
            /\ scale_run'.requested # <<>> /\ scale_run.pc # "idle") =>
             /\ scale_run'.requested
                   = Append(scale_run.requested, LastRequested(scale_run'))
             /\ scale_run'.observed >= LastRequested(scale_run)
       /\ (scale_run.pc = "wait" /\ scale_run.attempt >= max_attempts) =>
             /\ scale_run'.pc = "idle"
             /\ scale_run'.outcome = "raised"
             /\ scale_run'.error = TimeoutError(scale_run.endpoint)
             /\ scale_run'.requested = scale_run.requested
             /\ UNCHANGED last_scale_operations
       /\ (scale_run.pc # "idle" /\ scale_run'.outcome = "raised") =>
             /\ scale_run.pc = "wait"
             /\ scale_run.attempt = max_attempts
             /\ scale_run.observed < LastRequested(scale_run)]_vars

\* the wait for the second step of a gradual scale-up has timed out
C31_Witness ==
    /\ scale_run.outcome = "raised"
    /\ scale_run.error = TimeoutError(scale_run.endpoint)
    /\ Len(scale_run.requested) = 2
    /\ scale_run.attempt = max_attempts
    /\ scale_run.endpoint \notin DOMAIN last_scale_operations

(***************************************************************************)
(* Autoscaler: when the timestamp of the last scale operation is written   *)
(***************************************************************************)
\* C32: last_scale_operations changes only in the step in which a scale call
\* that asked for a different instance count completes, and then only for the
\* call's endpoint, to the time of completion; a call that returns because of
\* the cooldown or because the target equals the current count, or that fails
\* because the count is unavailable or a wait timed out, leaves it unchanged.
C32_TimestampOnCompletionOnly ==
    [][/\ last_scale_operations' # last_scale_operations =>
             /\ scale_run.pc # "idle"
             /\ scale_run'.pc = "idle"
             /\ scale_run'.outcome = "returned"
             /\ scale_run'.target # scale_run'.current
             /\ LastRequested(scale_run') = scale_run'.target
             /\ last_scale_operations'
                   = DictSet(last_scale_operations, scale_run'.endpoint, now')
       /\ (scale_run'.pc = "idle" /\ scale_run' # scale_run
            /\ (scale_run.pc = "idle" \/ scale_run'.outcome = "raised")) =>
             UNCHANGED last_scale_operations
       /\ (scale_run.pc # "idle" /\ scale_run'.outcome = "returned") =>
             /\ scale_run'.endpoint \in DOMAIN last_scale_operations'
             /\ last_scale_operations'[scale_run'.endpoint] = now']_vars

\* a call in the cooldown has returned: the timestamp is that of the earlier
\* call, and the count differs from the target
C32_Witness ==
    /\ scale_run.pc = "idle"
    /\ scale_run.outcome = "returned"
    /\ scale_run.requested = <<>>
    /\ scale_run.current # 0
    /\ scale_run.target # scale_run.current
    /\ scale_run.endpoint \in DOMAIN last_scale_operations
    /\ last_scale_operations[scale_run.endpoint] <= now

(***************************************************************************)
(* Tracker: the history kept for trend analysis                            *)
(***************************************************************************)
History(dict, e) == DictGet(dict, e, <<>>)

\* C33: a record_action_result call leaves the result last in its endpoint's
\* history when its action was created less than 24 hours ago, leaves in that
\* history no entry of an action created more than 24 hours ago, leaves the
\* history of every other endpoint as it was, and updates the effectiveness
\* of the pair as if nothing had been pruned.
C33_HistoryPrunedOnWrite ==
    [][\A r \in HistoryResults :
          (r.created_at <= now /\ record_action_result(r)) =>
             LET list == History(recent_results', r.endpoint)
                 key == <<r.endpoint, r.type>>
             IN  /\ r.created_at > now - history_window =>
                       /\ list # <<>>
                       /\ list[Len(list)] = HistoryEntry(r)
                 /\ \A i \in 1..Len(list) : list[i].created_at >= now - history_window
                 /\ \A b \in Endpoints \ {r.endpoint} :
                       /\ History(recent_results', b) = History(recent_results, b)
                       /\ b \in DOMAIN recent_results' <=> b \in DOMAIN recent_results
                 /\ effectiveness' =
                       DictSet(effectiveness, key,
                               Updated(DictGet(effectiveness, key, ActionEffectiveness), r))
                 /\ effectiveness'[key].total_attempts = recorded'[key].n]_vars

\* a write for e1 has pruned e1's older result; e2's result of the same age
\* is still there, and both results of e1 are counted
C33_Witness ==
    /\ <<"e1", "scale">> \in DOMAIN effectiveness
    /\ effectiveness[<<"e1", "scale">>].total_attempts = 2
    /\ Len(History(recent_results, "e1")) = 1
    /\ History(recent_results, "e2") # <<>>
    /\ History(recent_results, "e2")[1].created_at < now - history_window

(***************************************************************************)
(* Load balancer: the range of the server weights                          *)
(***************************************************************************)
InUnitInterval(w) == w[1] >= 0 /\ w[1] <= w[2]

WeightsInRange ==
    \A e \in DOMAIN servers : \A j \in DOMAIN servers[e] :
        InUnitInterval(servers[e][j].weight)

\* the step is an adjust call for e with these weights
AdjustsWeights(e, weights) ==
    /\ lb_calls["k1"].pc = "idle"
    /\ lb_calls'["k1"] # lb_calls["k1"]
    /\ lb_calls'["k1"].endpoint = e
    /\ lb_calls'["k1"].weights = weights

\* the step is a health check of e that found a server newly unhealthy
FindsUnhealthy(e) ==
    /\ probe' # probe
    /\ probe'.endpoint = e
    /\ probe'.health = UNHEALTHY
    /\ probe'.before # UNHEALTHY

\* C34: every server's weight is between 0 and 1 in every state; an adjust
\* call changes the weights of the servers its weights map names, each to the
\* supplied weight brought into [0, 1], and no other; a server found unhealthy
\* gets weight 0 and the other weights change to 1/(number of healthy
\* servers) or not at all.
C34_WeightsInUnitInterval ==
    /\ []WeightsInRange
    /\ [][\A e \in LBEndpoints :
            /\ \A weights \in WeightDicts : AdjustsWeights(e, weights) =>
                  \A j \in DOMAIN servers[e] :
                     LET id == servers[e][j].id
                     IN  servers'[e][j].weight =
                           IF id \notin DOMAIN weights THEN servers[e][j].weight
                           ELSE IF weights[id][1] < 0 THEN <<0, 1>>
                           ELSE IF weights[id][1] > weights[id][2] THEN <<1, 1>>
                           ELSE weights[id]
            /\ FindsUnhealthy(e) =>
                  LET healthy == {j \in DOMAIN servers'[e] :
                                     servers'[e][j].health = HEALTHY}
                  IN  \A j \in DOMAIN servers[e] :
                         IF j = probe'.server THEN servers'[e][j].weight = <<0, 1>>
                         ELSE \/ servers'[e][j].weight = servers[e][j].weight
                              \/ servers'[e][j].weight = <<1, Cardinality(healthy)>>]_vars

\* an adjust call has brought a weight of -1/2 to 0 and stored 1/4 as it is
C34_Witness ==
    /\ lb_calls["k1"].weights = [b1 |-> <<1, 4>>, b2 |-> <<-1, 2>>]
    /\ servers["e1"][1].weight = <<1, 4>>
    /\ servers["e1"][2].weight = <<0, 1>>
    /\ servers["e1"][3].weight = <<1, 1>>

(***************************************************************************)
(* Decision engine: policies whose action cannot be built                  *)
(***************************************************************************)
HasAction(policy) ==
    policy.actions # <<>> /\ policy.actions[1].type \in ActionType

WithActionOnly(ordered) == SelectSeq(ordered, HasAction)

Configures(e) ==
    /\ event'.op = "configure"
    /\ event'.endpoint = e
    /\ monitors'[e] = monitors[e] + 1

\* C36: configure on an endpoint that has a circuit already stores the new
\* timeout and threshold with a reset timeout of 60 and leaves the circuit's
\* state, error count, request count and time of last state change as they
\* were: an open or half-open circuit stays open or half-open.
C36_ReconfigureKeepsCircuit ==
    [][\A e \in CircuitEndpoints :
          (Configures(e) /\ e \in DOMAIN states) =>
              /\ states'[e] = states[e]
              /\ error_counts'[e] = error_counts[e]
              /\ request_counts'[e] = request_counts[e]
              /\ last_state_change'[e] = last_state_change[e]
              /\ \E tm \in TimeoutChoices, th \in ThresholdChoices :
                    configs'[e] = [timeout_ms |-> tm, error_threshold |-> th,
                                   reset_timeout_seconds |-> 60]]_vars

\* an open circuit with counted errors has just been configured again, with a
\* threshold that its error rate exceeds
C36_Witness ==
    /\ event.op = "configure"
    /\ event.endpoint \in DOMAIN states
    /\ states[event.endpoint] = OPEN
    /\ error_counts[event.endpoint] > 0
    /\ configs[event.endpoint].error_threshold = <<1, 2>>

(***************************************************************************)
(* Cache manager: a configuration whose application fails                  *)
(***************************************************************************)
\* caller k's last adjust call raised out of the backend call
AdjustRaised(k) ==
    /\ cache_calls[k].pc = "idle"
    /\ cache_calls[k].applied
    /\ ~cache_calls[k].warmed

\* the configuration of k's call is the stored one, or a later call's is
StoredFor(k) ==
    LET call == cache_calls[k]
    IN  /\ call.endpoint \in DOMAIN cache_configs
        /\ cache_configs[call.endpoint].last_modified >= call.started
        /\ cache_configs[call.endpoint].last_modified = call.started =>
              /\ cache_configs[call.endpoint].ttl_seconds = call.ttl_seconds
              /\ cache_configs[call.endpoint].capacity = call.capacity

\* C39: adjust stores the new configuration, stamped with the time of the
\* call, before it applies it: while the call is applying and after it has
\* raised the configuration is stored, the raising step takes nothing back,
\* and an adjust call for the endpoint less than 300 seconds after the stamp
\* returns at once and changes nothing.
C39_FailedAdjustKeepsConfig ==
    /\ [](\A k \in CacheCallers :
            (cache_calls[k].pc = "apply" \/ AdjustRaised(k)) => StoredFor(k))
    /\ [][\A k \in CacheCallers :
            /\ (cache_calls[k].pc = "apply" /\ AdjustRaised(k)') =>
                  cache_configs' = cache_configs
            /\ \A r \in CacheCallers :
                  (/\ AdjustRaised(k)
                   /\ cache_calls[r].pc = "idle"
                   /\ cache_calls'[r] # cache_calls[r]
                   /\ cache_calls'[r].endpoint = cache_calls[k].endpoint
                   /\ now - cache_configs[cache_calls[k].endpoint].last_modified
                         < adjustment_cooldown) =>
                      /\ cache_configs' = cache_configs
                      /\ cache_calls'[r].pc = "idle"
                      /\ ~cache_calls'[r].applied]_vars

\* the first caller's adjust at 0 s raised; the second caller's adjust for the
\* same endpoint at 299 s was skipped and the failed configuration is stored
C39_Witness ==
    /\ AdjustRaised("k1")
    /\ cache_calls["k1"].endpoint = "e1"
    /\ cache_calls["k1"].started = 0
    /\ cache_calls["k2"].endpoint = "e1"
    /\ cache_calls["k2"].started = 299
    /\ cache_calls["k2"].pc = "idle"
    /\ ~cache_calls["k2"].applied
    /\ cache_calls["k2"].ttl_seconds # cache_calls["k1"].ttl_seconds
    /\ cache_configs["e1"] = [ttl_seconds |-> cache_calls["k1"].ttl_seconds,
                               capacity |-> cache_calls["k1"].capacity,
                               last_modified |-> 0]

(***************************************************************************)
(* Orchestrator and tracker: actions whose executor skips the work         *)
(***************************************************************************)
\* the executor of the action will return without doing anything
SkipsWork(id) ==
    LET a == ActionPool[id]
    IN  \/ /\ a.type = "scale"
           /\ \/ ~_can_scale(a.target_endpoint)
              \/ TargetInstances(SimulatedInstanceCount, ScaleFactorOf(a))
                    = SimulatedInstanceCount
        \/ /\ a.type = "adjust_cache"
           /\ InCacheCooldown(a.target_endpoint)

\* the step is execute_action(id) called by t
Executes(t, id) ==
    /\ ncalls'[t] = ncalls[t] + 1
    /\ IF calls'[t].pc = "handler" THEN calls'[t].action = id
       ELSE results'[t].action = id

\* the step hands t's result to the tracker
Records(t) ==
    /\ results[t].action # "none"
    /\ results'[t] = NoResult
    /\ recorded' # recorded

\* C40: execute_action of a scale action in cooldown or with target equal to
\* the current count, or of a cache adjustment in cooldown, ends in the same
\* step with the action completed and a result with success true and no side
\* effects, the executors' state unchanged; and the tracker, handed a
\* successful result, counts one more attempt and one more successful attempt.
C40_SkippedWorkCountsAsSuccess ==
    [][/\ \A t \in HealTasks, id \in ActionIds :
            (Executes(t, id) /\ SkipsWork(id) /\ id \notin active_actions) =>
                /\ results'[t] = [action |-> id, success |-> TRUE,
                                  metrics_after |-> "None", duration_ms |-> 0,
                                  side_effects |-> <<>>]
                /\ action_status'[id] = COMPLETED
                /\ calls'[t].pc = "idle"
                /\ UNCHANGED execvars
       /\ \A t \in HealTasks :
            (Records(t) /\ results[t].success) =>
                LET key == <<ActionPool[results[t].action].target_endpoint,
                             ActionPool[results[t].action].type>>
                    old == DictGet(effectiveness, key, ActionEffectiveness)
                IN  /\ effectiveness'[key].total_attempts = old.total_attempts + 1
                    /\ effectiveness'[key].successful_attempts
                          = old.successful_attempts + 1]_vars

\* the only scale action executed for e1 is the one whose target equals the
\* current count; nothing was scaled, and the tracker has one successful
\* attempt of scale for e1
C40_Witness ==
    /\ action_status["a1"] = PENDING
    /\ action_status["a7"] = COMPLETED
    /\ "e1" \notin DOMAIN last_scale_operations
    /\ <<"e1", "scale">> \in DOMAIN effectiveness
    /\ effectiveness[<<"e1", "scale">>].total_attempts = 1
    /\ effectiveness[<<"e1", "scale">>].successful_attempts = 1

(***************************************************************************)
(* Service, orchestrator and tracker: once the tracker's answer is no      *)
(***************************************************************************)
Pairs == HealEndpoints \X ActionType

\* the step is a handle_prediction call of c for e in which the engine
\* returned an action of this type
Handles(c, e, type) ==
    /\ <<event, hp_results, hp_decided>>' # <<event, hp_results, hp_decided>>
    /\ event'.op = "handle_prediction"
    /\ event'.endpoint = e
    /\ hp_results'[c].endpoint = e
    /\ hp_decided'[c] = type

====
